---- MODULE Spec2Model ----
(***************************************************************************)
(* Enrollment eligibility and prerequisite resolution of the registrar     *)
(* portal (enrollment/student_enrollment_views.py).                        *)
(*                                                                         *)
(* The model follows ONE student: every query of the core filters on       *)
(* student=student, so rows of other students never influence a result.    *)
(* Rows of a table are kept in primary-key order (a sequence), so that     *)
(* QuerySet.first() is the head of the filtered sequence.                  *)
(* Decimal quantities are integers: units in tenths (30.0 -> 300), grades  *)
(* and passing grades in hundredths (2.00 -> 200).                         *)
(***************************************************************************)
EXTENDS Integers, Sequences, FiniteSets, TLC

(***************************************************************************)
(* Bounds                                                                  *)
(***************************************************************************)
\* rows of StudentSubject in the initial academic record (SpecPrereq)
MaxPrereqAttempts == 2
\* rows of StudentSubject in the initial academic record (SpecGate)
MaxGateAttempts == 2
\* registrar/admin interventions during one enrollment flow (Spec)
MaxAdminOps == 1
\* rows of StudentSubject in the academic record (SpecPlanner)
MaxPlanAttempts == 2
\* rows of Curriculum (SpecCurriculum)
MaxCurricula == 2
\* rows of TransfereeEnrollment (SpecTransferee)
MaxTransferees == 2

(***************************************************************************)
(* Catalog: three subjects of the student's curriculum, a prerequisite     *)
(* chain 1 <- 2 <- 3 as in the seed data (CS102 <- CS103 <- CS201).        *)
(***************************************************************************)
SubjectIds == {1, 2, 3}

\* Subject.units, DecimalField(max_digits=3, decimal_places=1), in tenths
Units == [s \in SubjectIds |-> IF s = 3 THEN 1 ELSE 150]

\* CurriculumSubject (year_level, term_no) of the student's curriculum
CurriculumSubject == [s \in SubjectIds |->
                        IF s = 1 THEN <<1, 1>> ELSE IF s = 2 THEN <<1, 2>> ELSE <<2, 1>>]

\* Prereq edges <<subject, prereq_subject>> the registrar may add or remove
PossibleEdges == {<<2, 1>>, <<3, 2>>, <<3, 1>>}

\* Program.passing_grade of the student's program, in hundredths
ProgramPassingGrade == 200

\* the 30 unit cap of a selection, in tenths
UnitCap == 300

\* Terms of the student's level; end_date of term t is day t (distinct dates)
Terms == {1, 2, 3}
TermEnd == [t \in Terms |-> t]

Statuses == {"enrolled", "completed", "failed", "inc", "repeat_required"}

\* posted grade values: failing, exactly the threshold, (absent is <<>>)
GradeValues == {150, 200}

\* Setting.value_text of key enrollment_open; "missing" = no such row
SettingValues == {"missing", "true", "True", "false"}

StudentStatuses == {"active", "inactive", "graduated"}

Clients == {1, 2}

\* a subject of the catalog that is not in the student's curriculum
OutsideSubject == 4

\* an id posted in a selection form for which no Subject row exists
NoSuchSubject == 9

\* Term.LEVEL_CHOICES, the level of the student's program, and the Term
\* table of the enrollment flow: every term is of the student's level
Levels == {"SHS", "Bachelor", "Masteral"}
StudentLevel == "Bachelor"
StudentTerms == [t \in Terms |-> StudentLevel]

VARIABLES
    setting,          \* Setting enrollment_open value_text, or "missing"
    studentStatus,    \* Student.status
    hasCurriculum,    \* Student.curriculum is not NULL
    termActive,       \* Term.is_active per term
    prereqs,          \* rows of Prereq: set of <<subject, prereq_subject>>
    attempts,         \* committed rows of StudentSubject, pk order
    enrollments,      \* committed rows of Enrollment, pk order
    session,          \* per client: request.session enrollment_subjects/_total_units
    tx,               \* per client: the open transaction.atomic() block of a confirm
    response,         \* per client: outcome of its last request
    gateCall,         \* result of the last can_student_enroll call
    prereqCall,       \* result of the last check_prerequisite_with_grades call
    adminOps,         \* number of registrar/admin interventions so far
    levelCall,        \* result of the last get_student_current_level call
    planCall,         \* result of the last get_available_subjects_for_student call
    termLevel,        \* Term.level per term, "none" while the row does not exist
    curricula,        \* rows of Curriculum, pk order
    request,          \* the last request to a role_required view and its outcome
    toggleRun,        \* the setting before the current run of setting_toggle calls
    freshman,         \* the User and Student of the freshman flow and its login
    transferees,      \* rows of TransfereeEnrollment, pk order
    apiCall,          \* the last answer of api_check_prerequisites
    subjectUnits,     \* Subject.units per subject, in tenths
    gateRun           \* per client: a can_student_enroll call between its statements

dbVars == <<setting, studentStatus, hasCurriculum, termActive, prereqs, attempts, enrollments>>
flowVars == <<session, tx, response, adminOps>>
readVars == <<levelCall, planCall>>
vars == <<setting, studentStatus, hasCurriculum, termActive, prereqs, attempts,
          enrollments, session, tx, response, gateCall, prereqCall, adminOps,
          levelCall, planCall, termLevel, curricula, request, toggleRun,
          freshman, transferees, apiCall, subjectUnits, gateRun>>

\* the state of the registrar, admission and onboarding pages
portalVars == <<curricula, request, toggleRun, freshman, transferees, apiCall,
               subjectUnits, gateRun>>

\* no request to a role_required view was made yet
NoRequest == [view |-> "none", user |-> "anonymous", outcome |-> "none", message |-> "none"]

\* no setting_toggle call was made since the setting was last written
NoToggleRun == [before |-> "missing", toggles |-> 0]

\* api_check_prerequisites was not called yet
NoApiCall == [status |-> 0, subject |-> 0, prerequisites |-> <<>>, all_met |-> FALSE,
              unmet_count |-> 0, unmet_subjects |-> <<>>]

\* nobody went through the freshman flow yet
NoFreshman == [exists |-> FALSE, logged_in |-> FALSE, status |-> "none",
               onboarding_complete |-> FALSE, program |-> 0, curriculum |-> 0]

\* the Curriculum table as seeded: the one active curriculum of the student's
\* program
SeedCurricula == <<[program |-> 1, version |-> "v1", active |-> TRUE]>>

\* the registrar, admission and onboarding pages were never visited
PortalIdle ==
    /\ curricula = SeedCurricula
    /\ request = NoRequest
    /\ toggleRun = NoToggleRun
    /\ freshman = NoFreshman
    /\ transferees = <<>>
    /\ apiCall = NoApiCall
    /\ subjectUnits = Units
    /\ gateRun = [c \in {1, 2} |-> [stage |-> "idle", existing |-> <<>>,
                                    has_subjects |-> FALSE]]

(***************************************************************************)
(* Helpers                                                                 *)
(***************************************************************************)
Min(S) == CHOOSE x \in S : \A y \in S : x <= y

RECURSIVE SortedSeq(_)
SortedSeq(S) == IF S = {} THEN <<>> ELSE <<Min(S)>> \o SortedSeq(S \ {Min(S)})

Range(seq) == {seq[i] : i \in 1..Len(seq)}

RECURSIVE SumUnits(_)
\* sum(Decimal(str(s.units)) for s in selected_subjects)
SumUnits(S) == IF S = {} THEN 0
               ELSE LET s == CHOOSE x \in S : TRUE IN subjectUnits[s] + SumUnits(S \ {s})

\* sequences over Rows of length at most n
RECURSIVE SeqsUpTo(_, _)
SeqsUpTo(Rows, n) == IF n = 0 THEN {<<>>}
                     ELSE LET shorter == SeqsUpTo(Rows, n - 1)
                          IN shorter \cup {Append(q, r) : q \in shorter, r \in Rows}

\* StudentSubject.objects.filter(student=student, subject=.., status=..)
StatusRows(att, subject, status) ==
    SelectSeq(att, LAMBDA r : r.subject = subject /\ r.status = status)

\* StudentSubject.objects.filter(student=student, term=..)
TermRows(att, term) == SelectSeq(att, LAMBDA r : r.term = term)

(***************************************************************************)
(* get_student_current_level                                               *)
(***************************************************************************)
LevelLeq(a, b) == a[1] < b[1] \/ (a[1] = b[1] /\ a[2] <= b[2])

\* GetStudentCurrentLevel with status='completed' in place of
\* status__in=['completed', 'failed']
GetStudentCurrentLevelCompletedOnly(cur, att) ==
    IF ~cur THEN <<1, 1>>
    ELSE LET taken_subjects == {att[i].subject : i \in {j \in 1..Len(att) :
                                    att[j].status = "completed"}}
             completed_curriculum == {CurriculumSubject[s] : s \in taken_subjects \cap SubjectIds}
         IN IF completed_curriculum = {} THEN <<1, 1>>
            ELSE LET max_level == CHOOSE m \in completed_curriculum :
                                      \A x \in completed_curriculum : LevelLeq(x, m)
                 IN IF max_level[2] = 1 THEN <<max_level[1], 2>>
                    ELSE <<max_level[1] + 1, 1>>

GetStudentCurrentLevel(cur, att) ==
    IF ~cur THEN <<1, 1>>
    ELSE LET taken_subjects == {att[i].subject : i \in {j \in 1..Len(att) :
                                    att[j].status \in {"completed", "failed"}}}
             completed_curriculum == {CurriculumSubject[s] : s \in taken_subjects \cap SubjectIds}
         IN IF completed_curriculum = {} THEN <<1, 1>>
            ELSE LET max_level == CHOOSE m \in completed_curriculum :
                                      \A x \in completed_curriculum : LevelLeq(x, m)
                 IN IF max_level[2] = 1 THEN <<max_level[1], 2>>
                    ELSE <<max_level[1] + 1, 1>>

(***************************************************************************)
(* check_prerequisite_with_grades                                          *)
(***************************************************************************)
\* PrereqStep with "float(grade.grade) > passing_grade"
PrereqStepStrictlyAbove(att, acc, prereq_subject, passing_grade) ==
    LET completed_record == StatusRows(att, prereq_subject, "completed")
        inc_record == StatusRows(att, prereq_subject, "inc")
        blocked == [unmet |-> Append(acc.unmet, prereq_subject), with_inc |-> acc.with_inc]
    IN IF completed_record # <<>> THEN acc
       ELSE IF inc_record # <<>>
            THEN LET grade == Head(inc_record).grade
                 IN IF grade # <<>> /\ Head(grade) > passing_grade
                    THEN [unmet |-> Append(acc.unmet, prereq_subject),
                          with_inc |-> Append(acc.with_inc,
                                         [subject |-> prereq_subject, grade |-> Head(grade)])]
                    ELSE blocked
            ELSE blocked

\* PrereqStep accepting an incomplete attempt with a passing grade
PrereqStepIncSatisfies(att, acc, prereq_subject, passing_grade) ==
    LET completed_record == StatusRows(att, prereq_subject, "completed")
        inc_record == StatusRows(att, prereq_subject, "inc")
        blocked == [unmet |-> Append(acc.unmet, prereq_subject), with_inc |-> acc.with_inc]
    IN IF completed_record # <<>> THEN acc
       ELSE IF inc_record # <<>>
            THEN LET grade == Head(inc_record).grade
                 IN IF grade # <<>> /\ Head(grade) >= passing_grade
                    THEN [unmet |-> acc.unmet,
                          with_inc |-> Append(acc.with_inc,
                                         [subject |-> prereq_subject, grade |-> Head(grade)])]
                    ELSE blocked
            ELSE blocked

\* one iteration of "for prereq in prereqs" on the lists unmet and with_inc
PrereqStep(att, acc, prereq_subject, passing_grade) ==
    LET completed_record == StatusRows(att, prereq_subject, "completed")
        inc_record == StatusRows(att, prereq_subject, "inc")
        blocked == [unmet |-> Append(acc.unmet, prereq_subject), with_inc |-> acc.with_inc]
    IN IF completed_record # <<>> THEN acc
       ELSE IF inc_record # <<>>
            THEN LET grade == Head(inc_record).grade
                 IN IF grade # <<>> /\ Head(grade) >= passing_grade
                    THEN [unmet |-> Append(acc.unmet, prereq_subject),
                          with_inc |-> Append(acc.with_inc,
                                         [subject |-> prereq_subject, grade |-> Head(grade)])]
                    ELSE blocked
            ELSE blocked

RECURSIVE PrereqLoop(_, _, _, _)
PrereqLoop(att, acc, todo, passing_grade) ==
    IF todo = <<>> THEN acc
    ELSE PrereqLoop(att, PrereqStep(att, acc, Head(todo), passing_grade),
                    Tail(todo), passing_grade)

\* Prereq.objects.filter(subject=subject): the prerequisite subjects, in id order
PrereqSubjects(pre, subject) == {e[2] : e \in {x \in pre : x[1] = subject}}

\* passing_grade = 0 stands for the default None ("if not passing_grade")
CheckPrerequisiteWithGrades(att, pre, subject, passing_grade) ==
    LET pg == IF passing_grade = 0 THEN ProgramPassingGrade ELSE passing_grade
        todo == SortedSeq(PrereqSubjects(pre, subject))
        acc == PrereqLoop(att, [unmet |-> <<>>, with_inc |-> <<>>], todo, pg)
    IN IF todo = <<>> THEN [can_take |-> TRUE, unmet |-> <<>>, with_inc |-> <<>>]
       ELSE [can_take |-> Len(acc.unmet) = 0, unmet |-> acc.unmet, with_inc |-> acc.with_inc]

NoPrereqCall == [subject |-> 0, can_take |-> FALSE, unmet |-> <<>>, with_inc |-> <<>>]
NoGateCall == [allowed |-> FALSE, reason |-> "not_called", ungraded |-> <<>>,
               deleted |-> FALSE]

NoLevelCall == <<0, 0>>

(***************************************************************************)
(* get_available_subjects_for_student                                      *)
(***************************************************************************)
\* get_incomplete_subjects(student).exists()
HasInc(att) == \E i \in 1..Len(att) : att[i].status = "inc"

\* VisibleLevels without the "term_no == 2" condition
VisibleLevelsAnyTerm(level, has_inc, include_inc_path) ==
    IF has_inc /\ include_inc_path
    THEN {level, <<level[1] + 1, 1>>}
    ELSE {level}

\* visible_levels
VisibleLevels(level, has_inc, include_inc_path) ==
    IF has_inc /\ include_inc_path /\ level[2] = 2
    THEN {level, <<level[1] + 1, 1>>}
    ELSE {level}

\* StudentSubject.objects.filter(student=student, status__in=['completed',
\*     'failed', 'inc', 'repeat_required']).values_list('subject_id')
CompletedSubjectIds(att) ==
    {att[i].subject : i \in {j \in 1..Len(att) :
        att[j].status \in {"completed", "failed", "inc", "repeat_required"}}}

\* StudentSubject.objects.filter(student, subject, term=active_term).exists()
AlreadyEnrolledCurrent(att, subject, active_term) ==
    \E i \in 1..Len(att) : att[i].subject = subject /\ att[i].term = active_term

\* SubjectStatus with the visible-level test before the past-attempt test
SubjectStatusLevelFirst(att, pre, active_term, visible_levels, subject, passing_grade) ==
    LET prereq_check == CheckPrerequisiteWithGrades(att, pre, subject, passing_grade)
    IN IF CurriculumSubject[subject] \notin visible_levels THEN "future_level"
       ELSE IF subject \in CompletedSubjectIds(att) THEN "already_taken"
       ELSE IF AlreadyEnrolledCurrent(att, subject, active_term) THEN "skipped"
       ELSE IF prereq_check.can_take THEN "ready"
       ELSE IF prereq_check.with_inc # <<>> THEN "inc_prerequisite"
       ELSE "unmet_prerequisite"

\* the outcome of one iteration of "for cs in all_curriculum_subjects";
\* "skipped" is the "continue" that appends nothing
SubjectStatus(att, pre, active_term, visible_levels, subject, passing_grade) ==
    LET prereq_check == CheckPrerequisiteWithGrades(att, pre, subject, passing_grade)
    IN IF subject \in CompletedSubjectIds(att) THEN "already_taken"
       ELSE IF AlreadyEnrolledCurrent(att, subject, active_term) THEN "skipped"
       ELSE IF CurriculumSubject[subject] \notin visible_levels THEN "future_level"
       ELSE IF prereq_check.can_take THEN "ready"
       ELSE IF prereq_check.with_inc # <<>> THEN "inc_prerequisite"
       ELSE "unmet_prerequisite"

\* the subject_info dict appended for a subject
SubjectInfo(att, pre, visible_levels, subject, status, passing_grade) ==
    LET prereq_check == CheckPrerequisiteWithGrades(att, pre, subject, passing_grade)
        checked == status \in {"ready", "inc_prerequisite", "unmet_prerequisite"}
    IN [subject |-> subject,
        curriculum_level |-> CurriculumSubject[subject],
        is_visible_level |-> CurriculumSubject[subject] \in visible_levels,
        status |-> status,
        can_take |-> status = "ready",
        unmet_prereqs |-> IF checked THEN prereq_check.unmet ELSE <<>>,
        with_inc_prereqs |-> IF checked THEN prereq_check.with_inc ELSE <<>>]

\* the loop over all_curriculum_subjects, ordered by (year_level, term_no, code)
RECURSIVE SubjectsInfo(_, _, _, _, _, _)
SubjectsInfo(att, pre, active_term, visible_levels, todo, passing_grade) ==
    IF todo = <<>> THEN <<>>
    ELSE LET status == SubjectStatus(att, pre, active_term, visible_levels,
                                     Head(todo), passing_grade)
             rest == SubjectsInfo(att, pre, active_term, visible_levels,
                                  Tail(todo), passing_grade)
         IN IF status = "skipped" THEN rest
            ELSE <<SubjectInfo(att, pre, visible_levels, Head(todo), status,
                               passing_grade)>> \o rest

\* CurriculumSubject.objects.filter(curriculum=student.curriculum): the
\* catalog places the subjects in id order; no row for a NULL curriculum
AllCurriculumSubjects(cur) == IF cur THEN SortedSeq(SubjectIds) ELSE <<>>

GetAvailableSubjectsForStudent(cur, att, pre, active_term, include_inc_path) ==
    LET level == GetStudentCurrentLevel(cur, att)
        has_inc == HasInc(att)
        visible_levels == VisibleLevels(level, has_inc, include_inc_path)
    IN [subjects_info |-> SubjectsInfo(att, pre, active_term, visible_levels,
                                       AllCurriculumSubjects(cur), ProgramPassingGrade),
        has_inc |-> has_inc,
        current_level |-> level,
        visible_levels |-> visible_levels,
        include_inc_path |-> include_inc_path]

NoPlanCall == [subjects_info |-> <<>>, has_inc |-> FALSE, current_level |-> <<0, 0>>,
               visible_levels |-> {}, include_inc_path |-> FALSE]

(***************************************************************************)
(* can_student_enroll                                                      *)
(***************************************************************************)
\* str.lower() on the values of SettingValues
Lower(v) == IF v = "True" THEN "true" ELSE v

\* Term.objects.filter(is_active=True, level=student.program.level).first(); 0 = None
ActiveTerm(tact) == IF {t \in Terms : tact[t]} = {} THEN 0
                    ELSE Min({t \in Terms : tact[t]})

\* Enrollment.objects.filter(student=student, term=term)
EnrollmentRows(enr, term) == SelectSeq(enr, LAMBDA e : e.term = term)

\* DeleteEnrollment removing every Enrollment row of the student
DeleteEnrollmentOfAllTerms(enr, term) == <<>>

\* existing_enrollment.delete(): the first row of the term leaves the table
RECURSIVE DeleteEnrollment(_, _)
DeleteEnrollment(enr, term) ==
    IF enr = <<>> THEN <<>>
    ELSE IF Head(enr).term = term THEN Tail(enr)
    ELSE <<Head(enr)>> \o DeleteEnrollment(Tail(enr), term)

\* LatestPastTerm with order_by('term__end_date')
EarliestPastTerm(tact, enr) ==
    LET past == {enr[i].term : i \in {j \in 1..Len(enr) : ~tact[enr[j].term]}}
    IN IF past = {} THEN 0
       ELSE CHOOSE t \in past : \A u \in past : TermEnd[t] <= TermEnd[u]

\* Enrollment.objects.filter(student=student, term__is_active=False)
\*     .order_by('-term__end_date').first().term
LatestPastTerm(tact, enr) ==
    LET past == {enr[i].term : i \in {j \in 1..Len(enr) : ~tact[enr[j].term]}}
    IN IF past = {} THEN 0
       ELSE CHOOSE t \in past : \A u \in past : TermEnd[u] <= TermEnd[t]

\* the list ungraded_subjects of checks 5 and 6
RECURSIVE UngradedSubjects(_)
UngradedSubjects(past_subjects) ==
    IF past_subjects = <<>> THEN <<>>
    ELSE LET r == Head(past_subjects)
             rest == UngradedSubjects(Tail(past_subjects))
         IN IF r.grade = <<>> THEN <<[code |-> r.subject, status |-> r.status]>> \o rest
            ELSE rest

\* GateHistoryChecks admitting every student without a past Enrollment
GateHistoryChecksAnyLevel(cur, tact, enr, att) ==
    LET latest_past_term == LatestPastTerm(tact, enr)
        past_subjects == TermRows(att, latest_past_term)
        ungraded_subjects == UngradedSubjects(past_subjects)
    IN IF latest_past_term = 0
       THEN [allowed |-> TRUE, reason |-> "new_student", ungraded |-> <<>>]
       ELSE IF past_subjects = <<>>
            THEN [allowed |-> FALSE, reason |-> "no_past_subjects", ungraded |-> <<>>]
       ELSE IF ungraded_subjects # <<>>
            THEN [allowed |-> FALSE, reason |-> "ungraded_subjects",
                  ungraded |-> ungraded_subjects]
       ELSE [allowed |-> TRUE, reason |-> "eligible", ungraded |-> <<>>]

\* checks 4 to 6, on the Enrollment table as check 3 left it
GateHistoryChecks(cur, tact, enr, att) ==
    LET latest_past_term == LatestPastTerm(tact, enr)
        past_subjects == TermRows(att, latest_past_term)
        ungraded_subjects == UngradedSubjects(past_subjects)
    IN IF latest_past_term = 0
       THEN IF GetStudentCurrentLevel(cur, att) = <<1, 1>>
            THEN [allowed |-> TRUE, reason |-> "new_student", ungraded |-> <<>>]
            ELSE [allowed |-> FALSE, reason |-> "enrollment_status_error", ungraded |-> <<>>]
       ELSE IF past_subjects = <<>>
            THEN [allowed |-> FALSE, reason |-> "no_past_subjects", ungraded |-> <<>>]
       ELSE IF ungraded_subjects # <<>>
            THEN [allowed |-> FALSE, reason |-> "ungraded_subjects",
                  ungraded |-> ungraded_subjects]
       ELSE [allowed |-> TRUE, reason |-> "eligible", ungraded |-> <<>>]

\* DeletesOrphan of a gate that reports every existing Enrollment
NeverDeletesOrphan(enr, att, active_term) == FALSE

\* check 3: TRUE when the orphaned Enrollment of the active term is deleted
DeletesOrphan(enr, att, active_term) ==
    EnrollmentRows(enr, active_term) # <<>> /\ TermRows(att, active_term) = <<>>

\* CanStudentEnroll testing the student's status before the setting
CanStudentEnrollStatusFirst(set, st, cur, tact, enr, att, active_term) ==
    IF st # "active"
    THEN [result |-> [allowed |-> FALSE, reason |-> "student_not_active", ungraded |-> <<>>],
          enrollments |-> enr]
    ELSE IF set = "missing" \/ Lower(set) # "true"
    THEN [result |-> [allowed |-> FALSE, reason |-> "enrollment_closed", ungraded |-> <<>>],
          enrollments |-> enr]
    ELSE IF EnrollmentRows(enr, active_term) # <<>> /\ ~DeletesOrphan(enr, att, active_term)
    THEN [result |-> [allowed |-> FALSE, reason |-> "already_enrolled", ungraded |-> <<>>],
          enrollments |-> enr]
    ELSE LET enr2 == IF DeletesOrphan(enr, att, active_term)
                     THEN DeleteEnrollment(enr, active_term) ELSE enr
         IN [result |-> GateHistoryChecks(cur, tact, enr2, att), enrollments |-> enr2]

\* the result of the call and the Enrollment table it leaves behind
CanStudentEnroll(set, st, cur, tact, enr, att, active_term) ==
    IF set = "missing" \/ Lower(set) # "true"
    THEN [result |-> [allowed |-> FALSE, reason |-> "enrollment_closed", ungraded |-> <<>>],
          enrollments |-> enr]
    ELSE IF st # "active"
    THEN [result |-> [allowed |-> FALSE, reason |-> "student_not_active", ungraded |-> <<>>],
          enrollments |-> enr]
    ELSE IF EnrollmentRows(enr, active_term) # <<>> /\ ~DeletesOrphan(enr, att, active_term)
    THEN [result |-> [allowed |-> FALSE, reason |-> "already_enrolled", ungraded |-> <<>>],
          enrollments |-> enr]
    ELSE LET enr2 == IF DeletesOrphan(enr, att, active_term)
                     THEN DeleteEnrollment(enr, active_term) ELSE enr
         IN [result |-> GateHistoryChecks(cur, tact, enr2, att), enrollments |-> enr2]

(***************************************************************************)
(* Rows                                                                    *)
(***************************************************************************)
\* StudentSubject row; grade is the list of Grade rows of the attempt
Attempt(subject, term, status, grade) ==
    [subject |-> subject, term |-> term, status |-> status, grade |-> grade]

\* Enrollment row; confirm_of is a history field: the subject ids of the
\* stored selection the confirm that created the row worked on ({} for a
\* row not made by a confirm)
EnrollmentRow(term, total_units, status, confirm_of) ==
    [term |-> term, total_units |-> total_units, status |-> status,
     confirm_of |-> confirm_of]

NoSession == [subjects |-> {}, units |-> 0]
NoTx == [enrollment |-> <<>>, attempts |-> <<>>, todo |-> <<>>]

InTx(c) == tx[c].enrollment # <<>>

\* what a call of can_student_enroll returned, and (history) whether it
\* deleted an Enrollment row
GateCall(gate, enr) ==
    [allowed |-> gate.result.allowed, reason |-> gate.result.reason,
     ungraded |-> gate.result.ungraded, deleted |-> gate.enrollments # enr]

(***************************************************************************)
(* student_dashboard: calls can_student_enroll for the active term         *)
(***************************************************************************)
StudentDashboard ==
    LET active_term == ActiveTerm(termActive)
        gate == CanStudentEnroll(setting, studentStatus, hasCurriculum, termActive,
                                 enrollments, attempts, active_term)
    IN /\ active_term # 0
       /\ gateCall' = GateCall(gate, enrollments)
       /\ enrollments' = gate.enrollments
       /\ UNCHANGED <<setting, studentStatus, hasCurriculum, termActive, prereqs,
                      attempts, session, tx, response, prereqCall, adminOps,
                      levelCall, planCall, termLevel, portalVars>>

(***************************************************************************)
(* student_enroll_subjects, POST with the subject ids of the form          *)
(***************************************************************************)
\* ExceedsUnitCap with "total_units >= 30"
ReachesUnitCap(total_units) == total_units >= UnitCap

\* total_units > 30
ExceedsUnitCap(total_units) == total_units > UnitCap

\* SelectionOutcome without the "Check for double enrollment" loop
SelectionOutcomeNoDuplicateCheck(att, pre, active_term, ids) ==
    LET selected_subjects == ids \cap SubjectIds
        total_units == SumUnits(selected_subjects)
    IN IF ids = {} THEN "empty"
       ELSE IF ExceedsUnitCap(total_units) THEN "unit_cap"
       ELSE IF \E s \in selected_subjects :
                   ~CheckPrerequisiteWithGrades(att, pre, s, 0).can_take
            THEN "unmet_prerequisite"
       ELSE "stored"

\* the validation of the posted ids, after the gate allowed the student
SelectionOutcome(att, pre, active_term, ids) ==
    LET selected_subjects == ids \cap SubjectIds
        total_units == SumUnits(selected_subjects)
    IN IF ids = {} THEN "empty"
       ELSE IF ExceedsUnitCap(total_units) THEN "unit_cap"
       ELSE IF \E s \in selected_subjects :
                   ~CheckPrerequisiteWithGrades(att, pre, s, 0).can_take
            THEN "unmet_prerequisite"
       ELSE IF \E s \in ids : \E i \in 1..Len(att) :
                   att[i].subject = s /\ att[i].term = active_term
            THEN "duplicate"
       ELSE "stored"

StudentEnrollSubjects(c, ids) ==
    LET active_term == ActiveTerm(termActive)
        gate == CanStudentEnroll(setting, studentStatus, hasCurriculum, termActive,
                                 enrollments, attempts, active_term)
        outcome == SelectionOutcome(attempts, prereqs, active_term, ids)
    IN /\ ~InTx(c)
       /\ active_term # 0
       /\ UNCHANGED <<setting, studentStatus, hasCurriculum, termActive, prereqs,
                      attempts, tx, prereqCall, adminOps,
                      levelCall, planCall, termLevel, portalVars>>
       /\ gateCall' = GateCall(gate, enrollments)
       /\ enrollments' = gate.enrollments
       /\ IF ~gate.result.allowed
          THEN /\ response' = [response EXCEPT ![c] = gate.result.reason]
               /\ UNCHANGED session
          ELSE /\ response' = [response EXCEPT ![c] = outcome]
               /\ session' = IF outcome = "stored"
                             THEN [session EXCEPT ![c] =
                                     [subjects |-> ids,
                                      units |-> SumUnits(ids \cap SubjectIds)]]
                             ELSE session

(***************************************************************************)
(* student_confirm_enrollment, POST                                        *)
(***************************************************************************)
\* Enrollment.objects.get_or_create(student, term) on the unique key
\* (student, term): "exists" when a committed row is found, "blocked" while
\* another open transaction holds an uncommitted row of the key (the insert
\* waits for that transaction to end), "create" otherwise
GetOrCreateNoUniqueKey(enr, txs, c, term) ==
    IF EnrollmentRows(enr, term) # <<>> THEN "exists" ELSE "create"

GetOrCreate(enr, txs, c, term) ==
    IF EnrollmentRows(enr, term) # <<>> THEN "exists"
    ELSE IF \E d \in Clients \ {c} :
               txs[d].enrollment # <<>> /\ Head(txs[d].enrollment).term = term
         THEN "blocked"
    ELSE "create"

\* the request up to and including get_or_create
ConfirmBegin(c) ==
    LET active_term == ActiveTerm(termActive)
        selected_subject_ids == session[c].subjects
        goc == GetOrCreate(enrollments, tx, c, active_term)
    IN /\ ~InTx(c)
       /\ active_term # 0
       /\ IF selected_subject_ids = {}
          THEN /\ response' = [response EXCEPT ![c] = "no_selection"]
               /\ UNCHANGED tx
          ELSE /\ goc # "blocked"
               /\ IF goc = "exists"
                  THEN /\ response' = [response EXCEPT ![c] = "exists"]
                       /\ UNCHANGED tx
                  ELSE /\ response' = [response EXCEPT ![c] = "pending"]
                       /\ tx' = [tx EXCEPT ![c] =
                                   [enrollment |-> <<EnrollmentRow(active_term,
                                                       session[c].units, "confirmed",
                                                       selected_subject_ids)>>,
                                    attempts |-> <<>>,
                                    todo |-> SortedSeq(selected_subject_ids \cap SubjectIds)]]
       /\ UNCHANGED <<setting, studentStatus, hasCurriculum, termActive, prereqs,
                      attempts, enrollments, session, gateCall, prereqCall, adminOps,
                      levelCall, planCall, termLevel, portalVars>>

\* the INSERT of the Enrollment row raises: nothing was written
ConfirmCreateFails(c) ==
    LET active_term == ActiveTerm(termActive)
    IN /\ ~InTx(c)
       /\ active_term # 0
       /\ session[c].subjects # {}
       /\ GetOrCreate(enrollments, tx, c, active_term) = "create"
       /\ response' = [response EXCEPT ![c] = "error"]
       /\ UNCHANGED <<setting, studentStatus, hasCurriculum, termActive, prereqs,
                      attempts, enrollments, session, tx, gateCall, prereqCall, adminOps,
                      levelCall, planCall, termLevel, portalVars>>

\* one iteration of "for subject in selected_subjects": StudentSubject.objects.create
ConfirmCreateSubject(c) ==
    /\ InTx(c)
    /\ tx[c].todo # <<>>
    /\ tx' = [tx EXCEPT ![c].attempts =
                Append(@, Attempt(Head(tx[c].todo), Head(tx[c].enrollment).term,
                                  "enrolled", <<>>)),
              ![c].todo = Tail(@)]
    /\ UNCHANGED <<setting, studentStatus, hasCurriculum, termActive, prereqs, attempts,
                   enrollments, session, response, gateCall, prereqCall, adminOps,
                      levelCall, planCall, termLevel, portalVars>>

\* the tables after the atomic block is left by an exception
EnrollmentsAfterRollback(enr, t) == enr

AttemptsKeptAfterFailure(att, t) == att \o t.attempts

AttemptsAfterRollback(att, t) == att

\* the tables after the atomic block is left normally
EnrollmentsAfterCommit(enr, t) == enr \o t.enrollment
AttemptsAfterCommit(att, t) == att \o t.attempts

\* a StudentSubject create or the AuditTrail create raises inside the block
ConfirmFail(c) ==
    /\ InTx(c)
    /\ enrollments' = EnrollmentsAfterRollback(enrollments, tx[c])
    /\ attempts' = AttemptsAfterRollback(attempts, tx[c])
    /\ tx' = [tx EXCEPT ![c] = NoTx]
    /\ response' = [response EXCEPT ![c] = "error"]
    /\ UNCHANGED <<setting, studentStatus, hasCurriculum, termActive, prereqs,
                   session, gateCall, prereqCall, adminOps,
                      levelCall, planCall, termLevel, portalVars>>

\* all attempts and the audit record written: commit, clear the session
ConfirmCommit(c) ==
    /\ InTx(c)
    /\ tx[c].todo = <<>>
    /\ enrollments' = EnrollmentsAfterCommit(enrollments, tx[c])
    /\ attempts' = AttemptsAfterCommit(attempts, tx[c])
    /\ tx' = [tx EXCEPT ![c] = NoTx]
    /\ session' = [session EXCEPT ![c] = NoSession]
    /\ response' = [response EXCEPT ![c] = "created"]
    /\ UNCHANGED <<setting, studentStatus, hasCurriculum, termActive, prereqs,
                   gateCall, prereqCall, adminOps,
                      levelCall, planCall, termLevel, portalVars>>

(***************************************************************************)
(* Registrar and admin operations on the records the core reads            *)
(***************************************************************************)
\* StudentSubjectAdmin: the grading workflow moves an attempt to a status
AdminSetStatus(i, st) ==
    /\ adminOps < MaxAdminOps
    /\ i \in 1..Len(attempts)
    /\ attempts[i].status # st
    /\ attempts' = [attempts EXCEPT ![i].status = st]
    /\ adminOps' = adminOps + 1
    /\ UNCHANGED <<setting, studentStatus, hasCurriculum, termActive, prereqs,
                   enrollments, session, tx, response, gateCall, prereqCall,
                      levelCall, planCall, termLevel, portalVars>>

\* GradeAdmin: a professor's grade is posted for an attempt without one
AdminPostGrade(i, g) ==
    /\ i \in 1..Len(attempts)
    /\ attempts[i].grade = <<>>
    /\ attempts' = [attempts EXCEPT ![i].grade = <<g>>]
    /\ UNCHANGED <<setting, studentStatus, hasCurriculum, termActive, prereqs,
                   enrollments, session, tx, response, gateCall, prereqCall, adminOps,
                      levelCall, planCall, termLevel, portalVars>>

\* prerequisite_add: refused when the edge exists
PrerequisiteAdd(e) ==
    /\ adminOps < MaxAdminOps
    /\ e \notin prereqs
    /\ prereqs' = prereqs \cup {e}
    /\ adminOps' = adminOps + 1
    /\ UNCHANGED <<setting, studentStatus, hasCurriculum, termActive, attempts,
                   enrollments, session, tx, response, gateCall, prereqCall,
                      levelCall, planCall, termLevel, portalVars>>

\* prerequisite_delete
PrerequisiteDelete(e) ==
    /\ adminOps < MaxAdminOps
    /\ e \in prereqs
    /\ prereqs' = prereqs \ {e}
    /\ adminOps' = adminOps + 1
    /\ UNCHANGED <<setting, studentStatus, hasCurriculum, termActive, attempts,
                   enrollments, session, tx, response, gateCall, prereqCall,
                      levelCall, planCall, termLevel, portalVars>>

(***************************************************************************)
(* A call of check_prerequisite_with_grades(student, subject[, pg])        *)
(***************************************************************************)
CheckPrerequisites(subject, passing_grade) ==
    /\ prereqCall' =
         LET r == CheckPrerequisiteWithGrades(attempts, prereqs, subject, passing_grade)
         IN [subject |-> subject, can_take |-> r.can_take, unmet |-> r.unmet,
             with_inc |-> r.with_inc]
    /\ UNCHANGED <<setting, studentStatus, hasCurriculum, termActive, prereqs, attempts,
                   enrollments, session, tx, response, gateCall, adminOps,
                      levelCall, planCall, termLevel, portalVars>>

(***************************************************************************)
(* Calls of get_student_current_level(student) and of                      *)
(* get_available_subjects_for_student(student, active_term, flag)          *)
(***************************************************************************)
GetCurrentLevel ==
    /\ levelCall' = GetStudentCurrentLevel(hasCurriculum, attempts)
    /\ UNCHANGED <<setting, studentStatus, hasCurriculum, termActive, prereqs, attempts,
                   enrollments, session, tx, response, gateCall, prereqCall, adminOps,
                   planCall, termLevel, portalVars>>

ListAvailableSubjects(include_inc_path) ==
    /\ ActiveTerm(termActive) # 0
    /\ planCall' = GetAvailableSubjectsForStudent(hasCurriculum, attempts, prereqs,
                                                  ActiveTerm(termActive), include_inc_path)
    /\ UNCHANGED <<setting, studentStatus, hasCurriculum, termActive, prereqs, attempts,
                   enrollments, session, tx, response, gateCall, prereqCall, adminOps,
                   levelCall, termLevel, portalVars>>

(***************************************************************************)
(* Registrar term management (enrollment/views.py)                         *)
(***************************************************************************)
\* term_create: Term.objects.create(..., level=level, is_active=False)
TermCreate(t, level) ==
    /\ termLevel[t] = "none"
    /\ termLevel' = [termLevel EXCEPT ![t] = level]
    /\ termActive' = [termActive EXCEPT ![t] = FALSE]
    /\ UNCHANGED <<setting, studentStatus, hasCurriculum, prereqs, attempts,
                   enrollments, session, tx, response, gateCall, prereqCall, adminOps,
                   levelCall, planCall, portalVars>>

\* term_update: term.level = POST level; term.save() (is_active as loaded)
TermUpdate(t, level) ==
    /\ termLevel[t] # "none"
    /\ termLevel' = [termLevel EXCEPT ![t] = level]
    /\ UNCHANGED <<setting, studentStatus, hasCurriculum, termActive, prereqs, attempts,
                   enrollments, session, tx, response, gateCall, prereqCall, adminOps,
                   levelCall, planCall, portalVars>>

\* TermsAfterActivate deactivating the terms of every level
TermsAfterActivateAllLevels(tact, tlev, t) ==
    [u \in Terms |-> u = t]

\* Term.objects.filter(level=term.level).update(is_active=False);
\* term.is_active = True; term.save()
TermsAfterActivate(tact, tlev, t) ==
    [u \in Terms |-> IF u = t THEN TRUE
                     ELSE IF tlev[u] = tlev[t] THEN FALSE
                     ELSE tact[u]]

\* term_activate, POST
TermActivate(t) ==
    /\ termLevel[t] # "none"
    /\ termActive' = TermsAfterActivate(termActive, termLevel, t)
    /\ UNCHANGED <<setting, studentStatus, hasCurriculum, prereqs, attempts,
                   enrollments, session, tx, response, gateCall, prereqCall, adminOps,
                   levelCall, planCall, termLevel, portalVars>>

\* term_close, POST: term.is_active = False; term.save()
TermClose(t) ==
    /\ termLevel[t] # "none"
    /\ termActive' = [termActive EXCEPT ![t] = FALSE]
    /\ UNCHANGED <<setting, studentStatus, hasCurriculum, prereqs, attempts,
                   enrollments, session, tx, response, gateCall, prereqCall, adminOps,
                   levelCall, planCall, termLevel, portalVars>>

(***************************************************************************)
(* role_required and the registrar pages: curricula and settings           *)
(***************************************************************************)
\* who sends a request: nobody logged in, or a logged-in User of that role
Users == {"anonymous", "student", "registrar", "admin"}

\* rows of Program, and a program_id for which no row exists
Programs == {1, 2}
NoSuchProgram == 0

\* values of Curriculum.version posted in the forms
Versions == {"v1", "v2"}

\* the decorator without its role test: every logged-in user is let in
RoleRequiredAnyRole(user, allowed_roles) ==
    IF user = "anonymous" THEN "login" ELSE "run"

\* role_required(*allowed_roles): "login" = redirect to login, "forbidden" =
\* PermissionDenied (HTTP 403), "run" = the view body is called
RoleRequired(user, allowed_roles) ==
    IF user = "anonymous" THEN "login"
    ELSE IF user \notin allowed_roles THEN "forbidden"
    ELSE "run"

\* the decorator refused the request: it queues an error message and the
\* view body is not called
Refused(view, user, decision) ==
    request' = [view |-> view, user |-> user, outcome |-> decision,
                message |-> IF decision = "login" THEN "login_required"
                                                  ELSE "access_denied"]

\* the view body ran and answered with the given outcome
Served(view, user, outcome, message) ==
    request' = [view |-> view, user |-> user, outcome |-> outcome,
                message |-> message]

\* Curriculum.objects.filter(program=..., version=...).exists()
VersionExists(cur, program, version) ==
    \E i \in 1..Len(cur) : cur[i].program = program /\ cur[i].version = version

\* curriculum_create: a new curriculum is inactive
CurriculumCreate(user, program, version) ==
    /\ LET decision == RoleRequired(user, {"registrar"})
       IN IF decision # "run"
          THEN Refused("curriculum_create", user, decision) /\ UNCHANGED curricula
          ELSE IF program \notin Programs
          THEN Served("curriculum_create", user, "error", "none")
               /\ UNCHANGED curricula
          ELSE /\ Len(curricula) < MaxCurricula
               /\ curricula' = Append(curricula, [program |-> program,
                                                  version |-> version,
                                                  active |-> FALSE])
               /\ Served("curriculum_create", user, "ok", "none")
    /\ UNCHANGED <<setting, studentStatus, hasCurriculum, termActive, prereqs,
                   attempts, enrollments, session, tx, response, gateCall,
                   prereqCall, adminOps, levelCall, planCall, termLevel,
                   toggleRun, freshman, transferees, apiCall, subjectUnits, gateRun>>

\* curriculum_update: program, version and effective_sy are overwritten,
\* active is left as it is
CurriculumUpdate(user, pk, program, version) ==
    /\ LET decision == RoleRequired(user, {"registrar"})
       IN IF decision # "run"
          THEN Refused("curriculum_update", user, decision) /\ UNCHANGED curricula
          ELSE IF pk \notin 1..Len(curricula)
          THEN Served("curriculum_update", user, "not_found", "none")
               /\ UNCHANGED curricula
          ELSE IF program \notin Programs
          THEN Served("curriculum_update", user, "error", "none")
               /\ UNCHANGED curricula
          ELSE /\ curricula' = [curricula EXCEPT ![pk].program = program,
                                                 ![pk].version = version]
               /\ Served("curriculum_update", user, "ok", "none")
    /\ UNCHANGED <<setting, studentStatus, hasCurriculum, termActive, prereqs,
                   attempts, enrollments, session, tx, response, gateCall,
                   prereqCall, adminOps, levelCall, planCall, termLevel,
                   toggleRun, freshman, transferees, apiCall, subjectUnits, gateRun>>

\* curriculum_duplicate: an inactive copy in the program of the source,
\* refused when the program already has the new version
CurriculumDuplicate(user, pk, new_version) ==
    /\ LET decision == RoleRequired(user, {"registrar"})
       IN IF decision # "run"
          THEN Refused("curriculum_duplicate", user, decision)
               /\ UNCHANGED curricula
          ELSE IF pk \notin 1..Len(curricula)
          THEN Served("curriculum_duplicate", user, "error", "none")
               /\ UNCHANGED curricula
          ELSE IF VersionExists(curricula, curricula[pk].program, new_version)
          THEN Served("curriculum_duplicate", user, "bad_request", "none")
               /\ UNCHANGED curricula
          ELSE /\ Len(curricula) < MaxCurricula
               /\ curricula' = Append(curricula,
                                      [program |-> curricula[pk].program,
                                       version |-> new_version,
                                       active |-> FALSE])
               /\ Served("curriculum_duplicate", user, "ok", "none")
    /\ UNCHANGED <<setting, studentStatus, hasCurriculum, termActive, prereqs,
                   attempts, enrollments, session, tx, response, gateCall,
                   prereqCall, adminOps, levelCall, planCall, termLevel,
                   toggleRun, freshman, transferees, apiCall, subjectUnits, gateRun>>

\* the atomic block of curriculum_toggle_active: on activation every other
\* curriculum of the same program is deactivated, then this one is saved
CurriculaAfterToggle(cur, pk, new_status) ==
    [i \in 1..Len(cur) |->
        IF i = pk THEN [cur[i] EXCEPT !.active = new_status]
        ELSE IF new_status /\ cur[i].program = cur[pk].program
             THEN [cur[i] EXCEPT !.active = FALSE]
             ELSE cur[i]]

\* curriculum_toggle_active
CurriculumToggleActive(user, pk, new_status) ==
    /\ LET decision == RoleRequired(user, {"registrar"})
       IN IF decision # "run"
          THEN Refused("curriculum_toggle_active", user, decision)
               /\ UNCHANGED curricula
          ELSE IF pk \notin 1..Len(curricula)
          THEN Served("curriculum_toggle_active", user, "error", "none")
               /\ UNCHANGED curricula
          ELSE /\ curricula' = CurriculaAfterToggle(curricula, pk, new_status)
               /\ Served("curriculum_toggle_active", user, "ok", "none")
    /\ UNCHANGED <<setting, studentStatus, hasCurriculum, termActive, prereqs,
                   attempts, enrollments, session, tx, response, gateCall,
                   prereqCall, adminOps, levelCall, planCall, termLevel,
                   toggleRun, freshman, transferees, apiCall, subjectUnits, gateRun>>

\* values of value_text posted to setting_update
PostedSettingValues == {"true", "True", "false", "yes"}

\* settings_list: get_or_create of the enrollment_open row, default 'false'
SettingsList(user) ==
    /\ LET decision == RoleRequired(user, {"registrar", "admin"})
       IN IF decision # "run"
          THEN Refused("settings_list", user, decision)
               /\ UNCHANGED <<setting, toggleRun>>
          ELSE /\ setting' = IF setting = "missing" THEN "false" ELSE setting
               /\ UNCHANGED toggleRun
               /\ Served("settings_list", user, "ok", "none")
    /\ UNCHANGED <<studentStatus, hasCurriculum, termActive, prereqs,
                   attempts, enrollments, session, tx, response, gateCall,
                   prereqCall, adminOps, levelCall, planCall, termLevel,
                   curricula, freshman, transferees, apiCall, subjectUnits, gateRun>>

\* setting_update (POST) of the enrollment_open row: value_text is stored
\* as posted
SettingUpdate(user, value_text) ==
    /\ LET decision == RoleRequired(user, {"registrar", "admin"})
       IN IF decision # "run"
          THEN Refused("setting_update", user, decision)
               /\ UNCHANGED <<setting, toggleRun>>
          ELSE IF setting = "missing"
          THEN Served("setting_update", user, "not_found", "none")
               /\ UNCHANGED <<setting, toggleRun>>
          ELSE /\ setting' = value_text
               /\ toggleRun' = NoToggleRun
               /\ Served("setting_update", user, "ok", "success")
    /\ UNCHANGED <<studentStatus, hasCurriculum, termActive, prereqs,
                   attempts, enrollments, session, tx, response, gateCall,
                   prereqCall, adminOps, levelCall, planCall, termLevel,
                   curricula, freshman, transferees, apiCall, subjectUnits, gateRun>>

\* the new value_text of setting_toggle
ToggledValue(value_text) ==
    IF Lower(value_text) = "true" THEN "false" ELSE "true"

\* setting_toggle (POST) of key enrollment_open; toggleRun keeps the value
\* the setting held before the first toggle of a pair
SettingToggle(user) ==
    /\ LET decision == RoleRequired(user, {"registrar", "admin"})
       IN IF decision # "run"
          THEN Refused("setting_toggle", user, decision)
               /\ UNCHANGED <<setting, toggleRun>>
          ELSE IF setting = "missing"
          THEN Served("setting_toggle", user, "not_found", "none")
               /\ UNCHANGED <<setting, toggleRun>>
          ELSE /\ setting' = ToggledValue(setting)
               /\ toggleRun' = IF toggleRun.toggles = 1
                               THEN [toggleRun EXCEPT !.toggles = 2]
                               ELSE [before |-> setting, toggles |-> 1]
               /\ Served("setting_toggle", user, "ok", "success")
    /\ UNCHANGED <<studentStatus, hasCurriculum, termActive, prereqs,
                   attempts, enrollments, session, tx, response, gateCall,
                   prereqCall, adminOps, levelCall, planCall, termLevel,
                   curricula, freshman, transferees, apiCall, subjectUnits, gateRun>>

(***************************************************************************)
(* The freshman flow: create credentials, select course, confirm           *)
(***************************************************************************)
\* the user of a request of the freshman's browser
FreshmanUser == IF freshman.logged_in THEN "student" ELSE "anonymous"

\* program.curricula.filter(active=True).first(); 0 = None
ActiveCurriculum(cur, program) ==
    IF {i \in 1..Len(cur) : cur[i].program = program /\ cur[i].active} = {} THEN 0
    ELSE Min({i \in 1..Len(cur) : cur[i].program = program /\ cur[i].active})

\* confirm_credentials without its test of the course selection
CourseSelectedNotChecked(student) == TRUE

\* the negation of "not student.program or not student.curriculum"
CourseSelected(student) == student.program # 0 /\ student.curriculum # 0

\* freshman_create_credentials (POST); valid = the form passes the field
\* validation. The User and the Student are created in one atomic block and
\* the new user is logged in
FreshmanCreateCredentials(valid) ==
    /\ IF freshman.logged_in
       THEN Served("freshman_create_credentials", "student", "redirect", "none")
            /\ UNCHANGED freshman
       ELSE IF ~valid \/ freshman.exists
       THEN Served("freshman_create_credentials", "anonymous", "errors", "none")
            /\ UNCHANGED freshman
       ELSE IF ActiveTerm(termActive) = 0
       THEN Served("freshman_create_credentials", "anonymous", "no_active_term",
                   "error")
            /\ UNCHANGED freshman
       ELSE /\ freshman' = [exists |-> TRUE, logged_in |-> TRUE,
                            status |-> "inactive", onboarding_complete |-> FALSE,
                            program |-> 0, curriculum |-> 0]
            /\ Served("freshman_create_credentials", "anonymous", "ok", "success")
    /\ UNCHANGED <<setting, studentStatus, hasCurriculum, termActive, prereqs,
                   attempts, enrollments, session, tx, response, gateCall,
                   prereqCall, adminOps, levelCall, planCall, termLevel,
                   curricula, toggleRun, transferees, apiCall, subjectUnits, gateRun>>

\* freshman_select_course (POST); program_id 0 = nothing selected
FreshmanSelectCourse(program_id) ==
    /\ IF ~freshman.logged_in
       THEN Served("freshman_select_course", "anonymous", "redirect", "none")
            /\ UNCHANGED freshman
       ELSE IF freshman.onboarding_complete
       THEN Served("freshman_select_course", "student", "redirect", "none")
            /\ UNCHANGED freshman
       ELSE IF program_id \notin Programs
       THEN Served("freshman_select_course", "student", "errors", "error")
            /\ UNCHANGED freshman
       ELSE IF ActiveCurriculum(curricula, program_id) = 0
       THEN Served("freshman_select_course", "student", "no_active_curriculum",
                   "error")
            /\ UNCHANGED freshman
       ELSE /\ freshman' = [freshman EXCEPT
                               !.program = program_id,
                               !.curriculum = ActiveCurriculum(curricula, program_id)]
            /\ Served("freshman_select_course", "student", "ok", "success")
    /\ UNCHANGED <<setting, studentStatus, hasCurriculum, termActive, prereqs,
                   attempts, enrollments, session, tx, response, gateCall,
                   prereqCall, adminOps, levelCall, planCall, termLevel,
                   curricula, toggleRun, transferees, apiCall, subjectUnits, gateRun>>

\* freshman_confirm_credentials (POST)
FreshmanConfirmCredentials ==
    /\ IF ~freshman.logged_in
       THEN Served("freshman_confirm_credentials", "anonymous", "redirect", "none")
            /\ UNCHANGED freshman
       ELSE IF freshman.onboarding_complete
       THEN Served("freshman_confirm_credentials", "student", "redirect", "none")
            /\ UNCHANGED freshman
       ELSE IF ~CourseSelected(freshman)
       THEN Served("freshman_confirm_credentials", "student", "select_first",
                   "error")
            /\ UNCHANGED freshman
       ELSE /\ freshman' = [freshman EXCEPT !.onboarding_complete = TRUE,
                                            !.status = "active"]
            /\ Served("freshman_confirm_credentials", "student", "ok", "success")
    /\ UNCHANGED <<setting, studentStatus, hasCurriculum, termActive, prereqs,
                   attempts, enrollments, session, tx, response, gateCall,
                   prereqCall, adminOps, levelCall, planCall, termLevel,
                   curricula, toggleRun, transferees, apiCall, subjectUnits, gateRun>>

\* login_view (POST) with the freshman's credentials
FreshmanLogin ==
    /\ freshman.exists /\ ~freshman.logged_in
    /\ freshman' = [freshman EXCEPT !.logged_in = TRUE]
    /\ UNCHANGED <<setting, studentStatus, hasCurriculum, termActive, prereqs,
                   attempts, enrollments, session, tx, response, gateCall,
                   prereqCall, adminOps, levelCall, planCall, termLevel,
                   curricula, toggleRun, request, transferees, apiCall, subjectUnits, gateRun>>

\* logout_view
FreshmanLogout ==
    /\ freshman.logged_in
    /\ freshman' = [freshman EXCEPT !.logged_in = FALSE]
    /\ UNCHANGED <<setting, studentStatus, hasCurriculum, termActive, prereqs,
                   attempts, enrollments, session, tx, response, gateCall,
                   prereqCall, adminOps, levelCall, planCall, termLevel,
                   curricula, toggleRun, request, transferees, apiCall, subjectUnits, gateRun>>

(***************************************************************************)
(* Transferee enrollments: create, verify TOR, create account, reject      *)
(***************************************************************************)
\* who requests the transferee pages
AdmissionUsers == {"anonymous", "student", "registrar", "admission"}

\* TransfereeEnrollment.STATUS_CHOICES
TransfereeStatuses == {"pending_credential_input", "pending_tor_verification",
                       "tor_verified", "account_created", "rejected"}

\* enrollment.freshman_views defines generate_student_id: it does not, so the
\* import inside the atomic block of create_account raises ImportError
GenerateStudentIdDefined == FALSE

\* login_required refused the request (redirect to login, no message) or
\* role_required did (PermissionDenied with an error message)
TransfereeRefused(view, user, decision) ==
    request' = [view |-> view, user |-> user, outcome |-> decision,
                message |-> IF decision = "login" THEN "none" ELSE "access_denied"]

\* transferee_create (POST); form = "valid", "invalid" (a validation error,
\* among them an email already used) or "no_program" (program or curriculum
\* not found). A new record has the default status
TransfereeCreate(user, form) ==
    /\ LET decision == RoleRequired(user, {"registrar", "admission"})
       IN IF decision # "run"
          THEN TransfereeRefused("transferee_create", user, decision)
               /\ UNCHANGED transferees
          ELSE IF form = "invalid"
          THEN Served("transferee_create", user, "errors", "none")
               /\ UNCHANGED transferees
          ELSE IF form = "no_program"
          THEN Served("transferee_create", user, "not_found", "error")
               /\ UNCHANGED transferees
          ELSE /\ Len(transferees) < MaxTransferees
               /\ transferees' = Append(transferees,
                                        [status |-> "pending_credential_input",
                                         created_user |-> FALSE,
                                         accounts |-> 0])
               /\ Served("transferee_create", user, "ok", "success")
    /\ UNCHANGED <<setting, studentStatus, hasCurriculum, termActive, prereqs,
                   attempts, enrollments, session, tx, response, gateCall,
                   prereqCall, adminOps, levelCall, planCall, termLevel,
                   curricula, toggleRun, freshman, apiCall, subjectUnits, gateRun>>

\* transferee_detail (POST), action verify_tor
TransfereeVerifyTor(user, pk) ==
    /\ LET decision == RoleRequired(user, {"registrar", "admission"})
       IN IF decision # "run"
          THEN TransfereeRefused("verify_tor", user, decision)
               /\ UNCHANGED transferees
          ELSE IF pk \notin 1..Len(transferees)
          THEN Served("verify_tor", user, "not_found", "none")
               /\ UNCHANGED transferees
          ELSE IF transferees[pk].status # "pending_tor_verification"
          THEN Served("verify_tor", user, "not_pending", "error")
               /\ UNCHANGED transferees
          ELSE /\ transferees' = [transferees EXCEPT ![pk].status = "tor_verified"]
               /\ Served("verify_tor", user, "ok", "success")
    /\ UNCHANGED <<setting, studentStatus, hasCurriculum, termActive, prereqs,
                   attempts, enrollments, session, tx, response, gateCall,
                   prereqCall, adminOps, levelCall, planCall, termLevel,
                   curricula, toggleRun, freshman, apiCall, subjectUnits, gateRun>>

\* the rows written inside the atomic block of create_account: the User and
\* the Student, then the transferee's created_user and status
TransfereeAfterAccount(t) ==
    [t EXCEPT !.created_user = TRUE, !.accounts = t.accounts + 1,
              !.status = "account_created"]

\* transferee_detail (POST), action create_account: the atomic block is
\* rolled back when generate_student_id cannot be imported
TransfereeCreateAccount(user, pk) ==
    /\ LET decision == RoleRequired(user, {"registrar", "admission"})
       IN IF decision # "run"
          THEN TransfereeRefused("create_account", user, decision)
               /\ UNCHANGED transferees
          ELSE IF pk \notin 1..Len(transferees)
          THEN Served("create_account", user, "not_found", "none")
               /\ UNCHANGED transferees
          ELSE IF transferees[pk].status # "tor_verified"
          THEN Served("create_account", user, "not_verified", "error")
               /\ UNCHANGED transferees
          ELSE IF transferees[pk].created_user
          THEN Served("create_account", user, "already_created", "warning")
               /\ UNCHANGED transferees
          ELSE IF ~GenerateStudentIdDefined
          THEN Served("create_account", user, "error", "error")
               /\ UNCHANGED transferees
          ELSE /\ transferees' = [transferees EXCEPT
                                     ![pk] = TransfereeAfterAccount(transferees[pk])]
               /\ Served("create_account", user, "ok", "success")
    /\ UNCHANGED <<setting, studentStatus, hasCurriculum, termActive, prereqs,
                   attempts, enrollments, session, tx, response, gateCall,
                   prereqCall, adminOps, levelCall, planCall, termLevel,
                   curricula, toggleRun, freshman, apiCall, subjectUnits, gateRun>>

\* transferee_detail (POST), action reject; reason = a rejection reason was
\* given
TransfereeReject(user, pk, reason) ==
    /\ LET decision == RoleRequired(user, {"registrar", "admission"})
       IN IF decision # "run"
          THEN TransfereeRefused("reject", user, decision)
               /\ UNCHANGED transferees
          ELSE IF pk \notin 1..Len(transferees)
          THEN Served("reject", user, "not_found", "none")
               /\ UNCHANGED transferees
          ELSE IF ~reason
          THEN Served("reject", user, "reason_required", "error")
               /\ UNCHANGED transferees
          ELSE /\ transferees' = [transferees EXCEPT ![pk].status = "rejected"]
               /\ Served("reject", user, "ok", "success")
    /\ UNCHANGED <<setting, studentStatus, hasCurriculum, termActive, prereqs,
                   attempts, enrollments, session, tx, response, gateCall,
                   prereqCall, adminOps, levelCall, planCall, termLevel,
                   curricula, toggleRun, freshman, apiCall, subjectUnits, gateRun>>

\* the change form of TransfereeEnrollmentAdmin: the status field is edited
\* by hand in the Django admin site
TransfereeAdminChange(pk, status) ==
    /\ pk \in 1..Len(transferees)
    /\ transferees' = [transferees EXCEPT ![pk].status = status]
    /\ UNCHANGED <<setting, studentStatus, hasCurriculum, termActive, prereqs,
                   attempts, enrollments, session, tx, response, gateCall,
                   prereqCall, adminOps, levelCall, planCall, termLevel,
                   curricula, toggleRun, freshman, request, apiCall, subjectUnits, gateRun>>

\* one request to a transferee view
TransfereeViews ==
    \/ \E u \in AdmissionUsers, f \in {"valid", "invalid", "no_program"} :
           TransfereeCreate(u, f)
    \/ \E u \in AdmissionUsers, pk \in 1..MaxTransferees : TransfereeVerifyTor(u, pk)
    \/ \E u \in AdmissionUsers, pk \in 1..MaxTransferees :
           TransfereeCreateAccount(u, pk)
    \/ \E u \in AdmissionUsers, pk \in 1..MaxTransferees, r \in BOOLEAN :
           TransfereeReject(u, pk, r)

(***************************************************************************)
(* api_check_prerequisites                                                 *)
(***************************************************************************)
\* the entry of one prerequisite in prerequisite_info
PrerequisiteInfo(att, prereq_check, prereq_subject) ==
    IF StatusRows(att, prereq_subject, "completed") # <<>>
    THEN [subject |-> prereq_subject, is_met |-> TRUE, status |-> "completed"]
    ELSE IF \E k \in 1..Len(prereq_check.with_inc) :
                prereq_check.with_inc[k].subject = prereq_subject
    THEN [subject |-> prereq_subject, is_met |-> TRUE,
          status |-> "incomplete_but_passing"]
    ELSE [subject |-> prereq_subject, is_met |-> FALSE, status |-> "unmet"]

\* the JSON body of the answer for an existing subject
PrerequisitesResponse(att, pre, subject) ==
    LET prereq_check == CheckPrerequisiteWithGrades(att, pre, subject, 0)
        listed == SortedSeq(PrereqSubjects(pre, subject))
    IN [status |-> 200,
        subject |-> subject,
        prerequisites |-> [k \in 1..Len(listed) |->
                              PrerequisiteInfo(att, prereq_check, listed[k])],
        all_met |-> prereq_check.can_take,
        unmet_count |-> Len(prereq_check.unmet),
        unmet_subjects |-> prereq_check.unmet]

\* the answer without a body: 400 (no subject_id) or 404 (no such Subject)
ErrorResponse(status) ==
    [status |-> status, subject |-> 0, prerequisites |-> <<>>, all_met |-> FALSE,
     unmet_count |-> 0, unmet_subjects |-> <<>>]

\* api_check_prerequisites (GET) of the logged-in student; subject_id 0 =
\* the parameter is missing
ApiCheckPrerequisites(subject_id) ==
    /\ apiCall' = IF subject_id = 0 THEN ErrorResponse(400)
                  ELSE IF subject_id \notin SubjectIds THEN ErrorResponse(404)
                  ELSE PrerequisitesResponse(attempts, prereqs, subject_id)
    /\ UNCHANGED <<setting, studentStatus, hasCurriculum, termActive, prereqs,
                   attempts, enrollments, session, tx, response, gateCall,
                   prereqCall, adminOps, levelCall, planCall, termLevel,
                   curricula, request, toggleRun, freshman, transferees, subjectUnits, gateRun>>

(***************************************************************************)
(* subject_update of the registrar                                         *)
(***************************************************************************)
\* values of units posted to subject_update, in tenths
PostedUnits == {1, 150}

\* subject_update (POST): the fields of the Subject are overwritten and its
\* Prereq rows are replaced by the posted prerequisites, in one atomic block
SubjectUpdate(user, pk, units, prerequisite_ids) ==
    /\ LET decision == RoleRequired(user, {"registrar"})
       IN IF decision # "run"
          THEN Refused("subject_update", user, decision)
               /\ UNCHANGED <<subjectUnits, prereqs, adminOps>>
          ELSE IF pk \notin SubjectIds
          THEN Served("subject_update", user, "not_found", "none")
               /\ UNCHANGED <<subjectUnits, prereqs, adminOps>>
          ELSE /\ adminOps < MaxAdminOps
               /\ adminOps' = adminOps + 1
               /\ subjectUnits' = [subjectUnits EXCEPT ![pk] = units]
               /\ prereqs' = {e \in prereqs : e[1] # pk}
                                \cup {<<pk, p>> : p \in prerequisite_ids}
               /\ Served("subject_update", user, "ok", "none")
    /\ UNCHANGED <<setting, studentStatus, hasCurriculum, termActive,
                   attempts, enrollments, session, tx, response, gateCall,
                   prereqCall, levelCall, planCall, termLevel,
                   curricula, toggleRun, freshman, transferees, apiCall, gateRun>>

(***************************************************************************)
(* can_student_enroll statement by statement: its two reads of check 3 and *)
(* its delete are separate statements outside any transaction, so commits  *)
(* of other requests fall between them                                     *)
(***************************************************************************)
\* a call that has not reached check 3
NoGateRun == [stage |-> "idle", existing |-> <<>>, has_subjects |-> FALSE]

\* checks 1 and 2, then Enrollment.objects.filter(student, term).first()
GateReadEnrollment(c) ==
    LET active_term == ActiveTerm(termActive)
        gate == CanStudentEnroll(setting, studentStatus, hasCurriculum, termActive,
                                 enrollments, attempts, active_term)
        found == EnrollmentRows(enrollments, active_term)
    IN /\ active_term # 0
       /\ gateRun[c].stage = "idle"
       /\ IF gate.result.reason \in {"enrollment_closed", "student_not_active"}
          THEN /\ gateCall' = GateCall(gate, enrollments)
               /\ UNCHANGED gateRun
          ELSE /\ gateRun' = [gateRun EXCEPT ![c] =
                                 [stage |-> "enrollment_read",
                                  existing |-> IF found = <<>> THEN <<>>
                                               ELSE <<Head(found)>>,
                                  has_subjects |-> FALSE]]
               /\ UNCHANGED gateCall
       /\ UNCHANGED <<setting, studentStatus, hasCurriculum, termActive, prereqs,
                      attempts, enrollments, session, tx, response, prereqCall,
                      adminOps, levelCall, planCall, termLevel, curricula, request,
                      toggleRun, freshman, transferees, apiCall, subjectUnits>>

\* StudentSubject.objects.filter(student, term).exists(), made when an
\* Enrollment was found
GateReadSubjects(c) ==
    /\ gateRun[c].stage = "enrollment_read"
    /\ gateRun' = [gateRun EXCEPT ![c].stage = "subjects_read",
                                  ![c].has_subjects =
                                      (gateRun[c].existing # <<>>
                                       /\ TermRows(attempts, ActiveTerm(termActive)) # <<>>)]
    /\ UNCHANGED <<setting, studentStatus, hasCurriculum, termActive, prereqs,
                   attempts, enrollments, session, tx, response, gateCall, prereqCall,
                   adminOps, levelCall, planCall, termLevel, curricula, request,
                   toggleRun, freshman, transferees, apiCall, subjectUnits>>

\* a delete of whatever Enrollment the term has when the statement runs
DeleteReadEnrollmentByTerm(enr, row) == SelectSeq(enr, LAMBDA e : e.term # row.term)

\* existing_enrollment.delete(): DELETE of the row that was read, by its
\* primary key; nothing is deleted when that row is gone.  Rows carry no id
\* here, so every row equal to the one read is removed: never fewer rows than
\* the statement removes
DeleteReadEnrollment(enr, row) == SelectSeq(enr, LAMBDA e : e # row)

\* the rest of the call: already_enrolled, or the delete of the orphaned
\* row that was read followed by checks 4 to 6
GateFinish(c) ==
    LET run == gateRun[c]
        orphaned == run.existing # <<>> /\ ~run.has_subjects
        enr2 == IF orphaned THEN DeleteReadEnrollment(enrollments, Head(run.existing))
                ELSE enrollments
        result == IF run.existing # <<>> /\ run.has_subjects
                  THEN [allowed |-> FALSE, reason |-> "already_enrolled",
                        ungraded |-> <<>>]
                  ELSE GateHistoryChecks(hasCurriculum, termActive, enr2, attempts)
    IN /\ run.stage = "subjects_read"
       /\ enrollments' = enr2
       /\ gateCall' = [allowed |-> result.allowed, reason |-> result.reason,
                       ungraded |-> result.ungraded, deleted |-> enr2 # enrollments]
       /\ gateRun' = [gateRun EXCEPT ![c] = NoGateRun]
       /\ UNCHANGED <<setting, studentStatus, hasCurriculum, termActive, prereqs,
                      attempts, session, tx, response, prereqCall,
                      adminOps, levelCall, planCall, termLevel, curricula, request,
                      toggleRun, freshman, transferees, apiCall, subjectUnits>>

(***************************************************************************)
(* Spec: the enrollment flow of one student, two browser sessions          *)
(***************************************************************************)
\* term 1 is over, term 2 is the active term
FlowTermActive == [t \in Terms |-> t = 2]

\* the student's history before the flow: nothing, or subject 1 completed
\* and graded in term 1
FlowHistories == {<<>>, <<Attempt(1, 1, "completed", <<200>>)>>}

\* Enrollment rows before the flow: the lock of term 1 and/or an orphaned
\* lock of the active term
FlowEnrollments ==
    LET past == EnrollmentRow(1, 150, "completed", {})
        orphan == EnrollmentRow(2, 150, "confirmed", {})
    IN {<<>>, <<past>>, <<orphan>>, <<past, orphan>>}

Init ==
    /\ setting = "true"
    /\ studentStatus = "active"
    /\ hasCurriculum = TRUE
    /\ termActive = FlowTermActive
    /\ prereqs = {<<2, 1>>, <<3, 2>>}
    /\ attempts \in FlowHistories
    /\ enrollments \in FlowEnrollments
    /\ session = [c \in Clients |-> NoSession]
    /\ tx = [c \in Clients |-> NoTx]
    /\ response = [c \in Clients |-> "none"]
    /\ gateCall = NoGateCall
    /\ prereqCall = NoPrereqCall
    /\ levelCall = NoLevelCall
    /\ planCall = NoPlanCall
    /\ termLevel = StudentTerms
    /\ PortalIdle
    /\ adminOps = 0

Next ==
    \/ StudentDashboard
    \/ \E c \in Clients, ids \in SUBSET SubjectIds : StudentEnrollSubjects(c, ids)
    \/ \E c \in Clients : ConfirmBegin(c)
    \/ \E c \in Clients : ConfirmCreateFails(c)
    \/ \E c \in Clients : ConfirmCreateSubject(c)
    \/ \E c \in Clients : ConfirmFail(c)
    \/ \E c \in Clients : ConfirmCommit(c)
    \/ \E i \in 1..Len(attempts), st \in Statuses : AdminSetStatus(i, st)
    \/ \E e \in PossibleEdges : PrerequisiteAdd(e)
    \/ \E e \in PossibleEdges : PrerequisiteDelete(e)

Spec == Init /\ [][Next]_vars

(***************************************************************************)
(* SpecPrereq: check_prerequisite_with_grades over bounded academic        *)
(* records and prerequisite edges                                          *)
(***************************************************************************)
\* the attempts a student may hold on the prerequisite subjects 1 and 2
\* in term t
PrereqRows(t) == {Attempt(s, t, st, g) :
                    s \in {1, 2}, st \in Statuses,
                    g \in {<<>>} \cup {<<v>> : v \in GradeValues}}

\* records of at most n attempts, the i-th attempt made in term i
RECURSIVE PrereqHistories(_)
PrereqHistories(n) ==
    IF n = 0 THEN {<<>>}
    ELSE LET shorter == PrereqHistories(n - 1)
         IN shorter \cup {Append(q, r) : q \in {h \in shorter : Len(h) = n - 1},
                                         r \in PrereqRows(n)}

InitPrereq ==
    /\ setting = "true"
    /\ studentStatus = "active"
    /\ hasCurriculum = TRUE
    /\ termActive = [t \in Terms |-> t = 3]
    /\ prereqs \in SUBSET PossibleEdges
    /\ attempts \in PrereqHistories(MaxPrereqAttempts)
    /\ enrollments = <<>>
    /\ session = [c \in Clients |-> NoSession]
    /\ tx = [c \in Clients |-> NoTx]
    /\ response = [c \in Clients |-> "none"]
    /\ gateCall = NoGateCall
    /\ prereqCall = NoPrereqCall
    /\ levelCall = NoLevelCall
    /\ planCall = NoPlanCall
    /\ termLevel = StudentTerms
    /\ PortalIdle
    /\ adminOps = 0

NextPrereq ==
    \E s \in SubjectIds, pg \in {0, ProgramPassingGrade} : CheckPrerequisites(s, pg)

SpecPrereq == InitPrereq /\ [][NextPrereq]_vars

(***************************************************************************)
(* SpecGate: can_student_enroll over bounded records                       *)
(***************************************************************************)
\* attempts on subjects 1 and 2 in any term: enrolled, completed and not
\* yet graded, completed and graded
GateRows == {Attempt(s, t, sg[1], sg[2]) :
                s \in {1, 2}, t \in Terms,
                sg \in {<<"enrolled", <<>>>>, <<"completed", <<>>>>,
                        <<"completed", <<200>>>>}}

\* at most one Enrollment row per term (the unique key), in term order
GateEnrollments ==
    {SortedEnr : SortedEnr \in
        {[i \in 1..Cardinality(T) |->
            EnrollmentRow(SortedSeq(T)[i], 150, "confirmed", {})] : T \in SUBSET Terms}}

InitGate ==
    /\ setting \in SettingValues
    /\ studentStatus \in StudentStatuses
    /\ hasCurriculum \in BOOLEAN
    /\ termActive = [t \in Terms |-> t = 3]
    /\ prereqs = {<<2, 1>>, <<3, 2>>}
    /\ attempts \in SeqsUpTo(GateRows, MaxGateAttempts)
    /\ Len(attempts) > 1 => (setting = "true" /\ studentStatus = "active")
    /\ enrollments \in GateEnrollments
    /\ session = [c \in Clients |-> NoSession]
    /\ tx = [c \in Clients |-> NoTx]
    /\ response = [c \in Clients |-> "none"]
    /\ gateCall = NoGateCall
    /\ prereqCall = NoPrereqCall
    /\ levelCall = NoLevelCall
    /\ planCall = NoPlanCall
    /\ termLevel = StudentTerms
    /\ PortalIdle
    /\ adminOps = 0

NextGate ==
    \/ StudentDashboard
    \/ \E i \in 1..Len(attempts), g \in GradeValues : AdminPostGrade(i, g)

SpecGate == InitGate /\ [][NextGate]_vars

(***************************************************************************)
(* SpecPlanner: get_student_current_level and                              *)
(* get_available_subjects_for_student over bounded academic records        *)
(***************************************************************************)
\* attempts on the curriculum subjects in the past term 1 or the active
\* term 3, an incomplete attempt without a grade or with a passing grade,
\* and a completed attempt on the subject outside the curriculum
PlanRows ==
    {Attempt(s, t, st, <<>>) : s \in SubjectIds, t \in {1, 3}, st \in Statuses}
    \cup {Attempt(s, t, "inc", <<ProgramPassingGrade>>) : s \in SubjectIds, t \in {1, 3}}
    \cup {Attempt(OutsideSubject, 1, "completed", <<>>)}

\* the prerequisite chain of the seed data, or subject 3 on subject 1 alone
PlanPrereqs == {{<<2, 1>>, <<3, 2>>}, {<<3, 1>>}}

InitPlanner ==
    /\ setting = "true"
    /\ studentStatus = "active"
    /\ hasCurriculum \in BOOLEAN
    /\ termActive = [t \in Terms |-> t = 3]
    /\ prereqs \in PlanPrereqs
    /\ attempts \in SeqsUpTo(PlanRows, MaxPlanAttempts)
    /\ ~hasCurriculum => (Len(attempts) <= 1 /\ prereqs = {<<3, 1>>})
    /\ enrollments = <<>>
    /\ session = [c \in Clients |-> NoSession]
    /\ tx = [c \in Clients |-> NoTx]
    /\ response = [c \in Clients |-> "none"]
    /\ gateCall = NoGateCall
    /\ prereqCall = NoPrereqCall
    /\ levelCall = NoLevelCall
    /\ planCall = NoPlanCall
    /\ termLevel = StudentTerms
    /\ PortalIdle
    /\ adminOps = 0

NextPlanner ==
    \/ GetCurrentLevel
    \/ \E include_inc_path \in BOOLEAN : ListAvailableSubjects(include_inc_path)

SpecPlanner == InitPlanner /\ [][NextPlanner]_vars

(***************************************************************************)
(* SpecCore: the core operations alone, reads included, two browser        *)
(* sessions; no registrar or admin step                                    *)
(***************************************************************************)
\* the selected_subjects lists a browser may post: any set of subjects, or
\* the id of no subject
PostedSelections == (SUBSET SubjectIds) \cup {{NoSuchSubject}}

\* the records <<attempts, enrollments>> before the first core operation:
\* subject 1 completed and graded in term 1 with the Enrollment of term 1,
\* the same with an orphaned Enrollment of the active term, or the same
\* with an attempt of subject 2 in the active term that the registrar made
\* in the admin site
CoreRecords ==
    LET past == EnrollmentRow(1, 150, "completed", {})
        orphan == EnrollmentRow(2, 150, "confirmed", {})
        completed == Attempt(1, 1, "completed", <<200>>)
    IN {<< <<completed>>, <<past>> >>,
        << <<completed>>, <<past, orphan>> >>,
        << <<completed, Attempt(2, 2, "enrolled", <<>>)>>, <<past>> >>}

InitCore ==
    /\ setting = "true"
    /\ studentStatus = "active"
    /\ hasCurriculum = TRUE
    /\ termActive = FlowTermActive
    /\ prereqs = {<<2, 1>>, <<3, 2>>}
    /\ \E r \in CoreRecords : attempts = r[1] /\ enrollments = r[2]
    /\ session = [c \in Clients |-> NoSession]
    /\ tx = [c \in Clients |-> NoTx]
    /\ response = [c \in Clients |-> "none"]
    /\ gateCall = NoGateCall
    /\ prereqCall = NoPrereqCall
    /\ levelCall = NoLevelCall
    /\ planCall = NoPlanCall
    /\ termLevel = StudentTerms
    /\ PortalIdle
    /\ adminOps = 0

NextCore ==
    \/ GetCurrentLevel
    \/ ListAvailableSubjects(TRUE)
    \/ \E s \in SubjectIds : CheckPrerequisites(s, 0)
    \/ StudentDashboard
    \/ \E c \in Clients, ids \in PostedSelections : StudentEnrollSubjects(c, ids)
    \/ \E c \in Clients : ConfirmBegin(c)
    \/ \E c \in Clients : ConfirmCreateFails(c)
    \/ \E c \in Clients : ConfirmCreateSubject(c)
    \/ \E c \in Clients : ConfirmFail(c)
    \/ \E c \in Clients : ConfirmCommit(c)

SpecCore == InitCore /\ [][NextCore]_vars

(***************************************************************************)
(* SpecTerm: the registrar's term management on an initially empty Term    *)
(* table                                                                   *)
(***************************************************************************)
InitTerm ==
    /\ setting = "true"
    /\ studentStatus = "active"
    /\ hasCurriculum = TRUE
    /\ termActive = [t \in Terms |-> FALSE]
    /\ termLevel = [t \in Terms |-> "none"]
    /\ PortalIdle
    /\ prereqs = {<<2, 1>>, <<3, 2>>}
    /\ attempts = <<>>
    /\ enrollments = <<>>
    /\ session = [c \in Clients |-> NoSession]
    /\ tx = [c \in Clients |-> NoTx]
    /\ response = [c \in Clients |-> "none"]
    /\ gateCall = NoGateCall
    /\ prereqCall = NoPrereqCall
    /\ levelCall = NoLevelCall
    /\ planCall = NoPlanCall
    /\ adminOps = 0

NextTerm ==
    \/ \E t \in Terms, level \in Levels : TermCreate(t, level)
    \/ \E t \in Terms, level \in Levels : TermUpdate(t, level)
    \/ \E t \in Terms : TermActivate(t)
    \/ \E t \in Terms : TermClose(t)

SpecTerm == InitTerm /\ [][NextTerm]_vars

(***************************************************************************)
(* SpecCurriculum: the curriculum pages of the registrar                   *)
(***************************************************************************)
InitCurriculum ==
    /\ setting = "true"
    /\ studentStatus = "active"
    /\ hasCurriculum = TRUE
    /\ termActive = FlowTermActive
    /\ prereqs = {}
    /\ attempts = <<>>
    /\ enrollments = <<>>
    /\ session = [c \in Clients |-> NoSession]
    /\ tx = [c \in Clients |-> NoTx]
    /\ response = [c \in Clients |-> "none"]
    /\ gateCall = NoGateCall
    /\ prereqCall = NoPrereqCall
    /\ adminOps = 0
    /\ levelCall = NoLevelCall
    /\ planCall = NoPlanCall
    /\ termLevel = StudentTerms
    /\ PortalIdle

NextCurriculum ==
    \/ \E u \in Users, p \in Programs \cup {NoSuchProgram}, v \in Versions :
           CurriculumCreate(u, p, v)
    \/ \E u \in Users, pk \in 1..MaxCurricula, p \in Programs \cup {NoSuchProgram},
          v \in Versions : CurriculumUpdate(u, pk, p, v)
    \/ \E u \in Users, pk \in 1..MaxCurricula, v \in Versions :
           CurriculumDuplicate(u, pk, v)
    \/ \E u \in Users, pk \in 1..MaxCurricula, a \in BOOLEAN :
           CurriculumToggleActive(u, pk, a)

SpecCurriculum == InitCurriculum /\ [][NextCurriculum]_vars

(***************************************************************************)
(* SpecSetting: the settings pages of the registrar and the admin          *)
(***************************************************************************)
InitSetting ==
    /\ setting \in {"missing", "true"}
    /\ studentStatus = "active"
    /\ hasCurriculum = TRUE
    /\ termActive = FlowTermActive
    /\ prereqs = {}
    /\ attempts = <<>>
    /\ enrollments = <<>>
    /\ session = [c \in Clients |-> NoSession]
    /\ tx = [c \in Clients |-> NoTx]
    /\ response = [c \in Clients |-> "none"]
    /\ gateCall = NoGateCall
    /\ prereqCall = NoPrereqCall
    /\ adminOps = 0
    /\ levelCall = NoLevelCall
    /\ planCall = NoPlanCall
    /\ termLevel = StudentTerms
    /\ PortalIdle

NextSetting ==
    \/ \E u \in Users : SettingsList(u)
    \/ \E u \in Users, v \in PostedSettingValues : SettingUpdate(u, v)
    \/ \E u \in Users : SettingToggle(u)

SpecSetting == InitSetting /\ [][NextSetting]_vars

(***************************************************************************)
(* SpecFreshman: one freshman goes through the onboarding pages while the  *)
(* registrar activates and deactivates curricula and terms                 *)
(***************************************************************************)
\* the active curriculum of program 1 and an inactive one of program 2
FreshmanCurricula == <<[program |-> 1, version |-> "v1", active |-> TRUE],
                       [program |-> 2, version |-> "v1", active |-> FALSE]>>

InitFreshman ==
    /\ setting = "true"
    /\ studentStatus = "active"
    /\ hasCurriculum = TRUE
    /\ termActive = FlowTermActive
    /\ prereqs = {}
    /\ attempts = <<>>
    /\ enrollments = <<>>
    /\ session = [c \in Clients |-> NoSession]
    /\ tx = [c \in Clients |-> NoTx]
    /\ response = [c \in Clients |-> "none"]
    /\ gateCall = NoGateCall
    /\ prereqCall = NoPrereqCall
    /\ adminOps = 0
    /\ levelCall = NoLevelCall
    /\ planCall = NoPlanCall
    /\ termLevel = StudentTerms
    /\ curricula = FreshmanCurricula
    /\ request = NoRequest
    /\ toggleRun = NoToggleRun
    /\ freshman = NoFreshman
    /\ transferees = <<>>
    /\ apiCall = NoApiCall
    /\ subjectUnits = Units
    /\ gateRun = [c \in {1, 2} |-> [stage |-> "idle", existing |-> <<>>,
                                    has_subjects |-> FALSE]]

NextFreshman ==
    \/ \E valid \in BOOLEAN : FreshmanCreateCredentials(valid)
    \/ \E p \in Programs \cup {NoSuchProgram} : FreshmanSelectCourse(p)
    \/ FreshmanConfirmCredentials
    \/ FreshmanLogin
    \/ FreshmanLogout
    \/ \E pk \in 1..Len(curricula), a \in BOOLEAN :
           CurriculumToggleActive("registrar", pk, a)
    \/ TermClose(2)
    \/ TermActivate(2)

SpecFreshman == InitFreshman /\ [][NextFreshman]_vars

(***************************************************************************)
(* SpecTransferee: the transferee pages and the admin site                 *)
(***************************************************************************)
InitTransferee ==
    /\ setting = "true"
    /\ studentStatus = "active"
    /\ hasCurriculum = TRUE
    /\ termActive = FlowTermActive
    /\ prereqs = {}
    /\ attempts = <<>>
    /\ enrollments = <<>>
    /\ session = [c \in Clients |-> NoSession]
    /\ tx = [c \in Clients |-> NoTx]
    /\ response = [c \in Clients |-> "none"]
    /\ gateCall = NoGateCall
    /\ prereqCall = NoPrereqCall
    /\ adminOps = 0
    /\ levelCall = NoLevelCall
    /\ planCall = NoPlanCall
    /\ termLevel = StudentTerms
    /\ PortalIdle

NextTransferee ==
    \/ TransfereeViews
    \/ \E pk \in 1..MaxTransferees, st \in TransfereeStatuses :
           TransfereeAdminChange(pk, st)

SpecTransferee == InitTransferee /\ [][NextTransferee]_vars

(***************************************************************************)
(* SpecApi: api_check_prerequisites over the academic records and the      *)
(* prerequisite edges of SpecPrereq                                        *)
(***************************************************************************)
NextApi ==
    \E s \in SubjectIds \cup {0, NoSuchSubject} : ApiCheckPrerequisites(s)

SpecApi == InitPrereq /\ [][NextApi]_vars

(***************************************************************************)
(* SpecConfirm: one browser session selects and confirms while the         *)
(* registrar toggles enrollment_open and updates subjects                  *)
(***************************************************************************)
InitConfirm ==
    /\ setting = "true"
    /\ studentStatus = "active"
    /\ hasCurriculum = TRUE
    /\ termActive = FlowTermActive
    /\ prereqs = {<<2, 1>>, <<3, 2>>}
    /\ attempts = <<Attempt(1, 1, "completed", <<200>>)>>
    /\ enrollments = <<EnrollmentRow(1, 150, "completed", {})>>
    /\ session = [c \in Clients |-> NoSession]
    /\ tx = [c \in Clients |-> NoTx]
    /\ response = [c \in Clients |-> "none"]
    /\ gateCall = NoGateCall
    /\ prereqCall = NoPrereqCall
    /\ adminOps = 0
    /\ levelCall = NoLevelCall
    /\ planCall = NoPlanCall
    /\ termLevel = StudentTerms
    /\ PortalIdle

NextConfirm ==
    \/ \E ids \in SUBSET SubjectIds : StudentEnrollSubjects(1, ids)
    \/ ConfirmBegin(1)
    \/ ConfirmCreateFails(1)
    \/ ConfirmCreateSubject(1)
    \/ ConfirmFail(1)
    \/ ConfirmCommit(1)
    \/ SettingToggle("registrar")
    \/ \E s \in SubjectIds, u \in PostedUnits :
           SubjectUpdate("registrar", s, u, PrereqSubjects(prereqs, s))

SpecConfirm == InitConfirm /\ [][NextConfirm]_vars

(***************************************************************************)
(* SpecRace: two browser sessions; selections and confirms interleave with *)
(* the statements of can_student_enroll calls                              *)
(***************************************************************************)
\* the selections posted: a subject the student may take, or an id without
\* a Subject row
RaceSelections == {{2}, {NoSuchSubject}}

\* the records <<attempts, enrollments>> at the start: subject 1 completed
\* and graded in term 1, without and with an orphaned Enrollment of the
\* active term
RaceRecords ==
    LET past == EnrollmentRow(1, 150, "completed", {})
        orphan == EnrollmentRow(2, 150, "confirmed", {})
        completed == Attempt(1, 1, "completed", <<200>>)
    IN {<< <<completed>>, <<past>> >>, << <<completed>>, <<past, orphan>> >>}

InitRace ==
    /\ setting = "true"
    /\ studentStatus = "active"
    /\ hasCurriculum = TRUE
    /\ termActive = FlowTermActive
    /\ prereqs = {<<2, 1>>, <<3, 2>>}
    /\ \E r \in RaceRecords : attempts = r[1] /\ enrollments = r[2]
    /\ session = [c \in Clients |-> NoSession]
    /\ tx = [c \in Clients |-> NoTx]
    /\ response = [c \in Clients |-> "none"]
    /\ gateCall = NoGateCall
    /\ prereqCall = NoPrereqCall
    /\ adminOps = 0
    /\ levelCall = NoLevelCall
    /\ planCall = NoPlanCall
    /\ termLevel = StudentTerms
    /\ PortalIdle

NextRace ==
    \/ \E c \in Clients : GateReadEnrollment(c)
    \/ \E c \in Clients : GateReadSubjects(c)
    \/ \E c \in Clients : GateFinish(c)
    \/ \E c \in Clients, ids \in RaceSelections : StudentEnrollSubjects(c, ids)
    \/ \E c \in Clients : ConfirmBegin(c)
    \/ \E c \in Clients : ConfirmCreateFails(c)
    \/ \E c \in Clients : ConfirmCreateSubject(c)
    \/ \E c \in Clients : ConfirmFail(c)
    \/ \E c \in Clients : ConfirmCommit(c)

SpecRace == InitRace /\ [][NextRace]_vars

(***************************************************************************)
(* Properties                                                              *)
(***************************************************************************)
\* the subjects of the committed attempts of a term
SubjectsInTerm(att, term) == {att[i].subject : i \in {j \in 1..Len(att) : att[j].term = term}}

\* C1: of the confirm attempts for one (student, term) at most one creates
\* the Enrollment: the table never holds two rows of a term, a confirm that
\* commits found no committed row of the term, and a confirm that finds a
\* committed row ends in the "already exists" rejection, opens no
\* transaction (so writes no attempt) and leaves every Enrollment row and
\* every attempt as it was.
C1_DuplicateConfirmRejected ==
    /\ [](\A i, j \in 1..Len(enrollments) :
              enrollments[i].term = enrollments[j].term => i = j)
    /\ [][\A c \in Clients :
            /\ ConfirmCommit(c) =>
                 /\ EnrollmentRows(enrollments, Head(tx[c].enrollment).term) = <<>>
                 /\ Len(EnrollmentRows(enrollments', Head(tx[c].enrollment).term)) = 1
            /\ (/\ ConfirmBegin(c)
                /\ session[c].subjects # {}
                /\ EnrollmentRows(enrollments, ActiveTerm(termActive)) # <<>>) =>
                 /\ response'[c] = "exists"
                 /\ tx'[c] = NoTx
                 /\ enrollments' = enrollments
                 /\ attempts' = attempts]_vars

\* C1 witness: one session's confirm created the Enrollment of the active
\* term with its attempts, the other session's confirm was rejected
C1_Witness ==
    \E c, d \in Clients :
        /\ response[c] = "created"
        /\ response[d] = "exists"
        /\ session[d].subjects # {}
        /\ \E i \in 1..Len(enrollments) :
              /\ enrollments[i].term = ActiveTerm(termActive)
              /\ enrollments[i].confirm_of \cap SubjectIds # {}
              /\ enrollments[i].confirm_of \subseteq
                    SubjectsInTerm(attempts, enrollments[i].term)

\* C2: a confirm is all-or-nothing: a failing confirm leaves the committed
\* Enrollment and StudentSubject tables as they were, and every committed
\* Enrollment made by a confirm is together with the attempts of all the
\* subjects that confirm selected.
C2_ConfirmAllOrNothing ==
    /\ [](\A i \in 1..Len(enrollments) :
              (enrollments[i].confirm_of \cap SubjectIds) \subseteq
                  SubjectsInTerm(attempts, enrollments[i].term))
    /\ [][\A c \in Clients :
            (ConfirmFail(c) \/ ConfirmCreateFails(c)) =>
                /\ enrollments' = enrollments
                /\ attempts' = attempts]_vars

\* C2 witness: a confirm failed after the Enrollment and a first attempt
\* were written while a second selected subject was still to be written,
\* and nothing of it is in the tables
C2_Witness ==
    \E c \in Clients :
        /\ response[c] = "error"
        /\ Cardinality(session[c].subjects) > 1
        /\ EnrollmentRows(enrollments, ActiveTerm(termActive)) = <<>>
        /\ TermRows(attempts, ActiveTerm(termActive)) = <<>>

\* C3: whenever a confirm creates subject attempts, the prerequisite
\* evaluator accepts each of these subjects on the academic record and the
\* prerequisite edges as they are when the confirm request is made.
C3_ConfirmRevalidatesPrerequisites ==
    [][\A c \in Clients :
         (ConfirmBegin(c) /\ tx'[c] # NoTx) =>
             \A s \in Range(tx'[c].todo) :
                 CheckPrerequisiteWithGrades(attempts, prereqs, s, 0).can_take]_vars

\* the student has a completed attempt of subject a
HasCompleted(a) ==
    \E i \in 1..Len(attempts) : attempts[i].subject = a /\ attempts[i].status = "completed"

\* the student's incomplete attempts of subject a (positions in pk order)
IncAttempts(a) ==
    {i \in 1..Len(attempts) : attempts[i].subject = a /\ attempts[i].status = "inc"}

\* attempt i carries a posted grade that meets or exceeds the threshold
HasPassingGrade(i) ==
    attempts[i].grade # <<>> /\ Head(attempts[i].grade) >= ProgramPassingGrade

\* the subjects named by the with_inc entries of the last call
WithIncSubjects == {prereqCall.with_inc[k].subject : k \in 1..Len(prereqCall.with_inc)}

EnrollmentOpen == setting \in {"true", "True"}

HasEnrollment(term) == \E i \in 1..Len(enrollments) : enrollments[i].term = term

HasAttemptIn(term) == \E i \in 1..Len(attempts) : attempts[i].term = term

IsOrphaned(term) == HasEnrollment(term) /\ ~HasAttemptIn(term)

PassesFirstThreeChecks ==
    /\ EnrollmentOpen
    /\ studentStatus = "active"
    /\ ~(HasEnrollment(ActiveTerm(termActive)) /\ HasAttemptIn(ActiveTerm(termActive)))

\* the terms of the student's past Enrollments (terms that are not active)
PastEnrollmentTerms == {t \in Terms : HasEnrollment(t) /\ ~termActive[t]}

\* the positions of the attempts of a term that have no posted Grade
UngradedIn(term) ==
    {i \in 1..Len(attempts) : attempts[i].term = term /\ attempts[i].grade = <<>>}

\* C6: for a student who passes the first three checks and has a past
\* Enrollment, with T the past term of the latest end date: while an attempt
\* of T has no Grade the gate answers not allowed, ungraded_subjects, and
\* lists exactly the ungraded attempts of T; when T has attempts and each
\* has a Grade the gate answers allowed.
C6_UngradedTermGate ==
    [][(StudentDashboard /\ PassesFirstThreeChecks /\ PastEnrollmentTerms # {}) =>
         LET T == CHOOSE t \in PastEnrollmentTerms :
                      \A u \in PastEnrollmentTerms : TermEnd[u] <= TermEnd[t]
             U == SortedSeq(UngradedIn(T))
         IN /\ U # <<>> =>
                 /\ ~gateCall'.allowed
                 /\ gateCall'.reason = "ungraded_subjects"
                 /\ Len(gateCall'.ungraded) = Len(U)
                 /\ \A k \in 1..Len(U) :
                        gateCall'.ungraded[k] =
                            [code |-> attempts[U[k]].subject, status |-> attempts[U[k]].status]
            /\ (U = <<>> /\ HasAttemptIn(T)) => gateCall'.allowed]_vars

\* C6 witness: the gate refused with one ungraded attempt listed, out of
\* two attempts of the latest past term 2, while the older past term 1 also
\* has an Enrollment
C6_Witness ==
    /\ gateCall.reason = "ungraded_subjects"
    /\ Len(gateCall.ungraded) = 1
    /\ HasEnrollment(1) /\ HasEnrollment(2)
    /\ Len(TermRows(attempts, 2)) = 2
    /\ Cardinality(UngradedIn(2)) = 1

\* C7: with enrollment open and the student active, an Enrollment of the
\* active term without any attempt of that term is deleted by the gate,
\* which then answers what the remaining rules give without that row
\* (never already_enrolled); afterwards no Enrollment of the active term
\* exists and a confirm's get_or_create does not find one.
C7_OrphanSelfHeal ==
    [][(/\ StudentDashboard
        /\ EnrollmentOpen
        /\ studentStatus = "active"
        /\ IsOrphaned(ActiveTerm(termActive))) =>
         LET at == ActiveTerm(termActive)
             rest == SelectSeq(enrollments, LAMBDA e : e.term # at)
         IN /\ enrollments' = rest
            /\ gateCall'.reason # "already_enrolled"
            /\ gateCall'.reason = GateHistoryChecks(hasCurriculum, termActive, rest,
                                                    attempts).reason
            /\ gateCall'.allowed = GateHistoryChecks(hasCurriculum, termActive, rest,
                                                     attempts).allowed
            /\ \A c \in Clients : GetOrCreate(enrollments', tx', c, at) # "exists"]_vars

\* C7 witness: the gate deleted an Enrollment row and admitted the student
C7_Witness ==
    /\ gateCall.deleted
    /\ gateCall.allowed
    /\ ~HasEnrollment(ActiveTerm(termActive))

\* C8: the gate answers with the reason of the first failing check in the
\* order enrollment_closed, student_not_active, already_enrolled,
\* enrollment_status_error, ungraded_subjects, and a call that stops at one
\* of the first three checks deletes nothing.
C8_GateCheckOrder ==
    [][StudentDashboard =>
         LET at == ActiveTerm(termActive)
         IN IF ~EnrollmentOpen
            THEN gateCall'.reason = "enrollment_closed" /\ enrollments' = enrollments
            ELSE IF studentStatus # "active"
            THEN gateCall'.reason = "student_not_active" /\ enrollments' = enrollments
            ELSE IF HasEnrollment(at) /\ HasAttemptIn(at)
            THEN gateCall'.reason = "already_enrolled" /\ enrollments' = enrollments
            ELSE IF PastEnrollmentTerms = {}
            THEN GetStudentCurrentLevel(hasCurriculum, attempts) # <<1, 1>> =>
                     gateCall'.reason = "enrollment_status_error"
            ELSE gateCall'.reason \in {"ungraded_subjects", "no_past_subjects", "eligible"}]_vars

\* C8 witness: enrollment closed, student not active, an orphaned Enrollment
\* of the active term present: the gate answered enrollment_closed and the
\* orphan is still there
C8_Witness ==
    /\ gateCall.reason = "enrollment_closed"
    /\ ~gateCall.deleted
    /\ studentStatus # "active"
    /\ IsOrphaned(ActiveTerm(termActive))

\* C9: for a student who passes the first three checks and has no past
\* Enrollment, the gate allows exactly when current_level is (1,1), and
\* answers enrollment_status_error for any other level.
C9_NoPastEnrollmentNeedsLevelOne ==
    [][(StudentDashboard /\ PassesFirstThreeChecks /\ PastEnrollmentTerms = {}) =>
         LET level == GetStudentCurrentLevel(hasCurriculum, attempts)
         IN /\ gateCall'.allowed <=> level = <<1, 1>>
            /\ level # <<1, 1>> => gateCall'.reason = "enrollment_status_error"]_vars

\* C9 witness: a student with a completed attempt and no Enrollment at all
\* was refused with enrollment_status_error
C9_Witness ==
    /\ gateCall.reason = "enrollment_status_error"
    /\ enrollments = <<>>
    /\ \E i \in 1..Len(attempts) : attempts[i].status = "completed"

\* C10: a selection of at most 30 units is not refused by the unit check
\* (exactly 30.0 is accepted); a selection of more than 30 units is refused
\* with unit_cap, creates no Enrollment and no attempt, opens no
\* transaction and leaves the stored selections as they were.
C10_UnitCap ==
    [][gateCall'.allowed =>
         \A c \in Clients :
            /\ response'[c] = "unit_cap" =>
                   \A ids \in (SUBSET SubjectIds) \ {{}} :
                       SumUnits(ids) <= UnitCap => ~StudentEnrollSubjects(c, ids)
            /\ \A ids \in (SUBSET SubjectIds) \ {{}} :
                   (SumUnits(ids) > UnitCap /\ StudentEnrollSubjects(c, ids)) =>
                       /\ response'[c] = "unit_cap"
                       /\ session' = session
                       /\ attempts' = attempts
                       /\ Len(enrollments') <= Len(enrollments)
                       /\ tx' = tx]_vars

\* C10 witness: one session stored a selection of exactly 30.0 units, the
\* other was refused by the unit check and holds no selection
C10_Witness ==
    \E c, d \in Clients :
        /\ response[c] = "stored"
        /\ session[c].units = UnitCap
        /\ response[d] = "unit_cap"
        /\ session[d] = NoSession
        /\ TermRows(attempts, ActiveTerm(termActive)) = <<>>

\* C11: the student never holds two attempts of one subject in one term,
\* and a confirm that commits creates no attempt for a subject that has a
\* committed attempt in the term of the confirm at that moment.
C11_NoDuplicateAttempt ==
    /\ [](\A i, j \in 1..Len(attempts) :
              (attempts[i].subject = attempts[j].subject
                  /\ attempts[i].term = attempts[j].term) => i = j)
    /\ [][\A c \in Clients :
            ConfirmCommit(c) =>
                \A k \in 1..Len(tx[c].attempts) :
                    tx[c].attempts[k].subject \notin
                        SubjectsInTerm(attempts, tx[c].attempts[k].term)]_vars

\* C11 witness: the student holds an attempt in the active term that no
\* confirm made, a selection holding its subject was refused as a
\* duplicate, and a confirm of another selection created its attempts
C11_Witness ==
    \E c, d \in Clients :
        /\ response[c] = "duplicate"
        /\ response[d] = "created"
        /\ Len(TermRows(attempts, ActiveTerm(termActive))) > 1

\* C12: an Enrollment row that a confirm created with status confirmed is
\* in the table, unchanged, after every later step, and its term never
\* gets a second row.
C12_ConfirmedEnrollmentImmutable ==
    [][\A i \in 1..Len(enrollments) :
          (enrollments[i].confirm_of # {} /\ enrollments[i].status = "confirmed") =>
              /\ \E j \in 1..Len(enrollments') : enrollments'[j] = enrollments[i]
              /\ Len(EnrollmentRows(enrollments', enrollments[i].term)) = 1]_vars

\* the level that follows a curriculum placement
LevelAfter(p) == IF p[2] = 1 THEN <<p[1], 2>> ELSE <<p[1] + 1, 1>>

\* the placements of the curriculum subjects with a completed or failed attempt
CountedPlacements ==
    {CurriculumSubject[s] : s \in {x \in SubjectIds :
        \E i \in 1..Len(attempts) :
            attempts[i].subject = x /\ attempts[i].status \in {"completed", "failed"}}}

\* C13: current_level is (1,1) for a student without curriculum or without
\* a completed or failed attempt on a curriculum subject; otherwise it is
\* the level after the greatest placement among the completed or failed
\* curriculum subjects: (y,2) after (y,1), (y+1,1) after (y,2).
C13_CurrentLevel ==
    [][GetCurrentLevel =>
         /\ (~hasCurriculum \/ CountedPlacements = {}) => levelCall' = <<1, 1>>
         /\ (hasCurriculum /\ CountedPlacements # {}) =>
               \E p \in CountedPlacements :
                   /\ \A q \in CountedPlacements : LevelLeq(q, p)
                   /\ levelCall' = LevelAfter(p)]_vars

\* C13 witness: the level (2,1) was returned for a student whose only
\* counted attempt is a failed one of subject 2, placed at (1,2), next to a
\* completed attempt of a subject outside the curriculum
C13_Witness ==
    /\ levelCall = <<2, 1>>
    /\ \E i \in 1..Len(attempts) :
          attempts[i].subject = 2 /\ attempts[i].status = "failed"
    /\ \E i \in 1..Len(attempts) : attempts[i].subject = OutsideSubject
    /\ \A i \in 1..Len(attempts) :
          attempts[i].subject \in SubjectIds => attempts[i].status # "completed"

\* the entries of a returned list for a subject, and the subject's outcome
EntriesOf(plan, s) == SelectSeq(plan.subjects_info, LAMBDA r : r.subject = s)
OutcomeIn(plan, s) == IF EntriesOf(plan, s) = <<>> THEN "skipped"
                      ELSE Head(EntriesOf(plan, s)).status

\* the student has an attempt of s in the active term / in another term
AttemptInActiveTerm(s) ==
    \E i \in 1..Len(attempts) :
        attempts[i].subject = s /\ attempts[i].term = ActiveTerm(termActive)
AttemptInPastTerm(s) ==
    \E i \in 1..Len(attempts) :
        attempts[i].subject = s /\ attempts[i].term # ActiveTerm(termActive)

\* the student has an attempt of s in a past term that is no longer 'enrolled'
ClosedAttemptInPastTerm(s) ==
    \E i \in 1..Len(attempts) :
        /\ attempts[i].subject = s
        /\ attempts[i].term # ActiveTerm(termActive)
        /\ attempts[i].status # "enrolled"

\* the prerequisite result of s: the outcome check_prerequisites maps to
PrerequisiteOutcome(s) ==
    LET r == CheckPrerequisiteWithGrades(attempts, prereqs, s, ProgramPassingGrade)
    IN IF r.can_take THEN "ready"
       ELSE IF r.with_inc # <<>> THEN "inc_prerequisite"
       ELSE "unmet_prerequisite"

ExpectedVisibleLevels(include_inc_path) ==
    LET level == GetStudentCurrentLevel(hasCurriculum, attempts)
        has_incomplete == \E i \in 1..Len(attempts) : attempts[i].status = "inc"
    IN IF has_incomplete /\ include_inc_path /\ level[2] = 2
       THEN {level, <<level[1] + 1, 1>>}
       ELSE {level}

C16_AlreadyTakenIffPastAttempt ==
    [][\A f \in BOOLEAN : (ListAvailableSubjects(f) /\ hasCurriculum) =>
         \A s \in SubjectIds :
             OutcomeIn(planCall', s) = "already_taken" <=> AttemptInPastTerm(s)]_vars

\* C17: a curriculum subject with an attempt in the active term and no
\* attempt in a past term is not in the returned list, whatever the status
\* of that attempt.
C17_ActiveTermAttemptNotListed ==
    [][\A f \in BOOLEAN : (ListAvailableSubjects(f) /\ hasCurriculum) =>
         \A s \in SubjectIds :
             (AttemptInActiveTerm(s) /\ ~AttemptInPastTerm(s)) =>
                 EntriesOf(planCall', s) = <<>>]_vars

\* a step of one of the three read operations
ReadStep ==
    \/ GetCurrentLevel
    \/ \E f \in BOOLEAN : ListAvailableSubjects(f)
    \/ \E s \in SubjectIds, pg \in {0, ProgramPassingGrade} : CheckPrerequisites(s, pg)

\* a step that calls can_student_enroll
GateStep ==
    \/ StudentDashboard
    \/ \E c \in Clients, ids \in PostedSelections : StudentEnrollSubjects(c, ids)

C19_OneActiveTermPerLevel ==
    \A t, u \in Terms :
        (/\ termLevel[t] # "none"
         /\ termLevel[t] = termLevel[u]
         /\ termActive[t]
         /\ termActive[u]) => t = u

\* C20: term_activate(t) ends with t active and every other term of t's
\* level inactive, and leaves the is_active flag of the terms of the other
\* levels, and every level, as they were.
C20_TermActivate ==
    [][\A t \in Terms : TermActivate(t) =>
         /\ termActive'[t]
         /\ \A u \in Terms \ {t} :
               /\ termLevel[u] = termLevel[t] => ~termActive'[u]
               /\ termLevel[u] # termLevel[t] => termActive'[u] = termActive[u]
         /\ termLevel' = termLevel]_vars

\* C20 witness: terms 1 and 2 are Bachelor terms, term 2 is active and
\* term 1 is not, and the Masteral term 3 is active
C20_Witness ==
    /\ termLevel = [t \in Terms |-> IF t = 3 THEN "Masteral" ELSE "Bachelor"]
    /\ termActive = [t \in Terms |-> t # 1]

\* the active curricula of a program
ActiveCurricula(program) ==
    {i \in 1..Len(curricula) : curricula[i].program = program /\ curricula[i].active}

\* C21: after any sequence of curriculum_create, curriculum_duplicate,
\* curriculum_update and curriculum_toggle_active, started with at most one
\* active Curriculum per Program, every Program has at most one active
\* Curriculum
C21_OneActiveCurriculumPerProgram ==
    \A program \in Programs : Cardinality(ActiveCurricula(program)) <= 1

\* C22: one setting_toggle of enrollment_open changes the stored value, and
\* the second one restores exactly the value held before the first
C22_ToggleTwiceRestores ==
    /\ toggleRun.toggles = 1 => setting # toggleRun.before
    /\ toggleRun.toggles = 2 => setting = toggleRun.before

\* the roles named in the role_required decorator of each view
AllowedRoles(view) ==
    IF view \in {"settings_list", "setting_update", "setting_toggle"}
    THEN {"registrar", "admin"}
    ELSE {"registrar"}

\* C24: a request to a role_required view is redirected to login exactly
\* when nobody is logged in and is refused with permission denied exactly
\* when the logged-in user's role is not among the decorator's roles, both
\* without any change of the stored state; so the body runs only for an
\* authenticated user of one of the roles
C24_RoleRequired ==
    [][request'.view # "none" =>
         /\ request'.outcome = "login" <=> request'.user = "anonymous"
         /\ request'.outcome = "forbidden" <=>
                (request'.user # "anonymous"
                 /\ request'.user \notin AllowedRoles(request'.view))
         /\ request'.outcome \in {"login", "forbidden"} =>
                UNCHANGED <<dbVars, flowVars, termLevel, curricula, toggleRun>>
         /\ (setting' # setting \/ toggleRun' # toggleRun \/ curricula' # curricula) =>
                request'.user \in AllowedRoles(request'.view)]_vars

\* a student was refused a settings page after the registrar had changed
\* the setting through it
C24_Witness ==
    /\ request.view = "setting_toggle"
    /\ request.user = "student"
    /\ request.outcome = "forbidden"
    /\ toggleRun.toggles = 1

\* C23: the freshman's Student is created inactive, not onboarded and
\* without a course; program and curriculum are written only by
\* select_course, as a program and an active curriculum of that program;
\* the student becomes active and onboarded only by a successful
\* confirm_credentials, made while both are set; so an onboarded freshman
\* has a program and a curriculum, and a freshman who has not confirmed is
\* inactive
C23_FreshmanOnboarding ==
    /\ [](freshman.exists =>
             /\ freshman.onboarding_complete =>
                    freshman.program # 0 /\ freshman.curriculum # 0
             /\ freshman.onboarding_complete <=> freshman.status = "active"
             /\ ~freshman.onboarding_complete <=> freshman.status = "inactive")
    /\ [][(~freshman.exists /\ freshman'.exists) =>
             /\ freshman'.status = "inactive"
             /\ ~freshman'.onboarding_complete
             /\ freshman'.program = 0 /\ freshman'.curriculum = 0]_vars
    /\ [][((freshman.exists /\ freshman'.status # freshman.status)
           \/ freshman'.onboarding_complete # freshman.onboarding_complete) =>
             /\ request'.view = "freshman_confirm_credentials"
             /\ request'.outcome = "ok"
             /\ freshman.program # 0 /\ freshman.curriculum # 0
             /\ freshman'.status = "active" /\ freshman'.onboarding_complete]_vars
    /\ [][(freshman'.program # freshman.program
           \/ freshman'.curriculum # freshman.curriculum) =>
             /\ request'.view = "freshman_select_course"
             /\ request'.outcome = "ok"
             /\ ~freshman.onboarding_complete
             /\ freshman'.program \in Programs
             /\ freshman'.curriculum \in 1..Len(curricula)
             /\ curricula[freshman'.curriculum].program = freshman'.program
             /\ curricula[freshman'.curriculum].active]_vars

\* the freshman is onboarded with program 2 and its curriculum, which the
\* registrar activated during the flow, while curriculum 1 is inactive
C23_Witness ==
    /\ freshman.onboarding_complete
    /\ freshman.status = "active"
    /\ freshman.program = 2
    /\ freshman.curriculum = 2
    /\ ~curricula[1].active

\* some request to a transferee view moves transferee pk to the status
MovesTo(pk, status) == TransfereeViews /\ transferees'[pk].status = status

\* C28: a transferee record can go from pending_credential_input to
\* pending_tor_verification, from there to tor_verified and from there to
\* account_created by the transferee views, and has at most one account,
\* which it has only once its status was tor_verified
C28_TransfereeLifecycle ==
    \A pk \in 1..Len(transferees) :
        /\ transferees[pk].status = "pending_credential_input" =>
               ENABLED MovesTo(pk, "pending_tor_verification")
        /\ transferees[pk].status = "pending_tor_verification" =>
               ENABLED MovesTo(pk, "tor_verified")
        /\ transferees[pk].status = "tor_verified" /\ ~transferees[pk].created_user =>
               ENABLED MovesTo(pk, "account_created")
        /\ transferees[pk].accounts <= 1
        /\ transferees[pk].accounts = 1 <=> transferees[pk].created_user

\* C30: in every answer of api_check_prerequisites for an existing subject,
\* all_met is true if and only if every listed prerequisite has is_met true
C30_AllMetIffEveryPrerequisiteMet ==
    apiCall.status = 200 =>
        (apiCall.all_met <=>
            \A k \in 1..Len(apiCall.prerequisites) : apiCall.prerequisites[k].is_met)

\* C25: a confirm writes an Enrollment only in a state in which
\* can_student_enroll allows the student for the active term: the setting
\* is open, the student is active and the last past term is graded
C25_ConfirmOnlyWhenGateAllows ==
    [][\A c \in Clients :
         (ConfirmBegin(c) /\ tx'[c] # NoTx) =>
             CanStudentEnroll(setting, studentStatus, hasCurriculum, termActive,
                              enrollments, attempts,
                              ActiveTerm(termActive)).result.allowed]_vars

\* C26: every attempt a confirm commits is for a subject that the planner,
\* called as the selection page calls it, lists as ready on the record as it
\* is when the confirm commits
C26_ConfirmedSubjectsAreReady ==
    [][\A c \in Clients :
         ConfirmCommit(c) =>
             \A k \in 1..Len(tx[c].attempts) :
                 OutcomeIn(GetAvailableSubjectsForStudent(
                               hasCurriculum, attempts, prereqs,
                               ActiveTerm(termActive), TRUE),
                           tx[c].attempts[k].subject) = "ready"]_vars

\* C29: the total_units of the Enrollment a confirm commits is the sum of
\* the units, as they are at the commit, of the subjects of the attempts it
\* commits, and is at most 30
C29_TotalUnitsOfConfirm ==
    [][\A c \in Clients :
         ConfirmCommit(c) =>
             /\ Head(tx[c].enrollment).total_units =
                    SumUnits({tx[c].attempts[k].subject : k \in 1..Len(tx[c].attempts)})
             /\ Head(tx[c].enrollment).total_units <= UnitCap]_vars

\* the Enrollment rows a step removes
RemovedEnrollments == Range(enrollments) \ Range(enrollments')

\* C27: however the statements of can_student_enroll interleave with
\* confirms, an Enrollment that is removed has no committed attempt in its
\* term and no open confirm is writing attempts for that term; so whenever
\* the student has attempts in a term, the Enrollment of that term exists
C27_GateNeverDeletesConfirmedEnrollment ==
    /\ [][\A e \in RemovedEnrollments :
             /\ TermRows(attempts, e.term) = <<>>
             /\ TermRows(attempts', e.term) = <<>>
             /\ \A c \in Clients :
                    InTx(c) => Head(tx[c].enrollment).term # e.term]_vars
    /\ [](\A t \in Terms :
             TermRows(attempts, t) # <<>> => EnrollmentRows(enrollments, t) # <<>>)

\* a gate call read the orphaned Enrollment and found no attempt; before its
\* delete ran, another call removed that row and a confirm committed a new
\* Enrollment with its attempt, which the late delete left in place
C27_Witness ==
    /\ \E c \in Clients :
          /\ gateRun[c].stage = "subjects_read"
          /\ gateRun[c].existing # <<>>
          /\ ~gateRun[c].has_subjects
          /\ Head(gateRun[c].existing) \notin Range(enrollments)
    /\ TermRows(attempts, 2) # <<>>
    /\ EnrollmentRows(enrollments, 2) # <<>>

====
